---- MODULE Spec2Model ----
(***************************************************************************)
(* Model of pyaarlo's ArloBackEnd (src/pyaarlo/backend.py): the pending-   *)
(* transaction map (_requests) with its waiters, and the event thread      *)
(* (_event_main) with start_monitoring() and logout().                     *)
(*                                                                         *)
(* Strings that the code inspects character by character (resource names,  *)
(* transaction ids, regular expressions) are sequences of one-character    *)
(* strings.                                                                *)
(***************************************************************************)
EXTENDS Naturals, Sequences, FiniteSets, TLC

\* ------------------------------------------------------------------ bounds
\* number of caller threads that use notify()/post() in synchronous mode
MaxCallers == 2

\* how many times the client program calls start_monitoring() in SpecRestart
MaxStarts == 2

\* largest number of topics that the devices advertise (allowedMqttTopics)
MaxTopics == 1

\* start_monitoring: "while not self._event_connected and count < 30"
StartWaitLimit == 30

\* Python's None for a captured response
NoneV == [ none |-> TRUE ]

\* Python's None (or the empty string: the code tests both with "if x:") for a
\* string field of a payload
Absent == << >>

\* _auth: "while attempt < 3"
LoginAttempts == 3

\* largest number of entries of cfg.ecdh_curves
MaxCurves == 2

\* largest value of cfg.tfa_retries
MaxTfaRetries == 2

\* no transport handle: self._event_client is None
NoClient == 0

Callers == 1 .. MaxCallers

\* the k-th call of start_monitoring() creates event thread k
Threads == 1 .. MaxStarts

\* the number of add_listener / add_any_listener calls
MaxListeners == 2

\* the number of devices in the device list
MaxDevices == 2

\* self._req_lock is free
NoOwner == 0

\* ------------------------------------------------------- payloads and keys
TidT == <<"t">>

ResAB == <<"a", "b">>

DevD == <<"d">>

\* the keys a caller registers: a transaction id, a resource name, and two
\* regular expressions (over the bare resource, over "resource:id")
Keys == { TidT, ResAB, <<"a", ".", "*">>, <<"a", "b", ":", "d">> }

\* a decoded event: response.get("transId"), .get("resource"), .get("from")
Payloads == [ transId : {Absent, TidT}, resource : {Absent, ResAB}, from : {Absent, DevD} ]

\* the keys the callers of the threaded specifications register (gen_trans_id()
\* for notify, the first key of params for post)
CallerKeys == { TidT, ResAB }

\* the payloads the transport delivers in the threaded specifications
StreamPayloads == { p \in Payloads : p.from = Absent }

\* what the transport delivers to the receive loop
\*   "undecodable": data that json.loads rejects
\*   "logout":      a payload with action == "logout"
\*   "connected":   SSE: a payload with status == "connected"; MQTT: on_connect
\*   "payload":     any other decoded payload
\*   "none":        SSE: the iterator yields None after stop()
\*   "closed":      the loop ends: an exception, or MQTT loop_forever returns
EventKinds == { "undecodable", "logout", "connected", "payload", "none", "closed" }

VARIABLES
    _requests,      \* self._requests: key -> None | captured response
    c_pc,           \* per caller: "idle", "started", "waiting", "done"
    c_tid,          \* per caller: the key of its transaction
    c_expired,      \* per caller: mnow >= mend
    c_notified,     \* per caller: woken by notify_all while in _lock.wait
    c_response,     \* per caller: what _wait_for_transaction returned
    c_arrived,      \* history: a payload resolved the caller's key since it registered
    c_cleared,      \* history: the map was cleared while the caller was blocked
    _logged_in,     \* self._logged_in
    _stop_thread,   \* self._stop_thread
    _event_client,  \* self._event_client: NoClient, or the handle of thread t
    _event_connected,   \* self._event_connected
    _client_connected,  \* self._client_connected: "unset" (no such attribute yet), "False"
    _use_mqtt,      \* self._use_mqtt
    t_pc,           \* per event thread: its place in _event_main
    t_mqtt,         \* per event thread: the transport of its running receive loop
    t_event,        \* per event thread: the event it has received and not processed
    t_handled,      \* history: the last event was handed to _event_handle_response
    h_stop,         \* per thread: stop()/disconnect() was called on its handle
    sm_pc,          \* start_monitoring: "idle", "waiting", "returned"
    sm_count,       \* start_monitoring: count
    sm_result,      \* start_monitoring: the returned value, and the flag it saw
    starts,         \* number of start_monitoring() calls made
    start_limit,    \* number of start_monitoring() calls the client program makes
    reconnecting,   \* bg.run_every(self._sse_reconnect, ...) is scheduled
    lo_pc           \* logout(): "idle", "check", "close", "put", "done", "raised"

\* the login (_login, _auth) and the session store (_load_session, _save_session)
VARIABLES
    l_pc,           \* _login/_auth: the place of the running call ("idle": none)
    curves,         \* len(cfg.ecdh_curves)
    curve,          \* _login: index of the current curve in cfg.ecdh_curves
    attempt,        \* _auth: attempt
    code,           \* _auth: code of the last response
    body,           \* _auth: body of the last response: "None", "message" or "data"
    l_success,      \* _login: success
    l_result,       \* what _login returned: "none" (running), "True", "False"
    tfa_source,     \* cfg.tfa_source: "push" (TFA_PUSH_SOURCE) or "provider"
    tfa,            \* the two-factor provider: "unused", "started", "stopped"
    tries,          \* _auth, push factor: tries
    tfa_retries,    \* cfg.tfa_retries
    _needs_pairing, \* self._needs_pairing
    factor_id,      \* _auth: factor_id is not None
    quick,          \* _auth: the AUTH_GET_FACTORID request answered 200
    codes,          \* history: the codes of the credential requests of this _auth pass
    sleeps,         \* history: the number of time.sleep(3) of this _auth pass
    outcomes,       \* history: per curve tried, how its attempt ended
    saves,          \* history: the number of _save_session() calls of this _login run
    session_file,   \* the content of cfg.session_file
    _session_info,  \* ArloBackEnd._session_info
    _user_id,       \* self._user_id
    _web_id,        \* self._web_id
    _sub_id,        \* self._sub_id
    _token,         \* self._token
    _expires_in,    \* self._expires_in
    _browser_auth_code, \* self._browser_auth_code
    _user_device_id,    \* self._user_device_id
    save_session,   \* cfg.save_session
    s_last          \* history: the last operation on the session store

VARIABLES
    _callbacks,     \* self._callbacks: device id or "all" -> list of callbacks
    listeners,      \* history: the number of add_listener / add_any_listener calls
    d_pc,           \* ev_inject: "idle" (not called) or "dispatched" (returned)
    d_response,     \* _event_dispatcher: response
    responses,      \* _event_dispatcher: responses, the (device_id, resource, response) triples
    scheduled       \* the (cb, resource, event) that self._arlo.bg.run was called with

VARIABLES
    event_backend,  \* cfg.event_backend
    devices,        \* self._arlo.devices: per device its allowedMqttTopics
    rq_pc,          \* per caller of _request_tuple: "idle", "acquire", "built", "sent", "returned"
    rq_method,      \* per caller: method (and stream)
    rq_result,      \* per caller: the (code, body) returned
    _req_lock       \* self._req_lock: NoOwner, or the caller that holds it

corrVars == << _requests, c_pc, c_tid, c_expired, c_notified, c_response, c_arrived, c_cleared >>

flagVars == << _logged_in, _stop_thread, _event_client, _event_connected, _client_connected, _use_mqtt >>

threadVars == << t_pc, t_mqtt, t_event, t_handled, h_stop >>

callVars == << sm_pc, sm_count, sm_result, starts, start_limit, reconnecting, lo_pc >>

coreVars == << corrVars, flagVars, threadVars, callVars >>

authVars == << l_pc, curves, curve, attempt, code, body, l_success, l_result, tfa_source, tfa,
               tries, tfa_retries, _needs_pairing, factor_id, quick, codes, sleeps, outcomes, saves >>

identVars == << _user_id, _web_id, _sub_id, _token, _expires_in, _browser_auth_code,
                _user_device_id >>

storeVars == << session_file, _session_info, save_session, s_last >>

dispVars == << _callbacks, listeners, d_pc, d_response, responses, scheduled >>

selVars == << event_backend, devices >>

reqVars == << rq_pc, rq_method, rq_result, _req_lock >>

sideVars == << selVars, reqVars >>

extVars == << authVars, identVars, storeVars, dispVars, sideVars >>

vars == << coreVars, extVars >>

\* ----------------------------------------------------------------- helpers
\* d[k] = v for a dict d (a function on a finite set of keys)
DictSet(d, k, v) == [ x \in (DOMAIN d) \cup {k} |-> IF x = k THEN v ELSE d[x] ]

\* d without key k
DictDel(d, k) == [ x \in (DOMAIN d) \ {k} |-> d[x] ]

\* {}
EmptyDict == [ x \in {} |-> NoneV ]

\* re.match(pattern, text): the pattern matches a prefix of the text.
\* Patterns are literals, "." and a postfix "*".
RECURSIVE ReMatch(_, _)
ReMatch(pattern, text) ==
    IF pattern = << >> THEN TRUE
    ELSE IF Len(pattern) >= 2 /\ pattern[2] = "*"
         THEN \E i \in 0 .. Len(text) :
                 /\ \A j \in 1 .. i : pattern[1] = "." \/ text[j] = pattern[1]
                 /\ ReMatch(SubSeq(pattern, 3, Len(pattern)), SubSeq(text, i + 1, Len(text)))
    ELSE IF text # << >> /\ (pattern[1] = "." \/ pattern[1] = text[1])
         THEN ReMatch(Tail(pattern), Tail(text))
    ELSE FALSE

\* "{}:{}".format(resource, device_id)
Compound(resource, device_id) == resource \o <<":">> \o device_id

\* _event_handle_response: the keys of reqs that the payload resolves
\*   if tid and tid in self._requests: ...
\*   if resource:
\*       if resource in self._requests: ...
\*       else: (if device_id: resource = "resource:id")
\*             for request in self._requests: if re.match(request, resource): ...
ResolvedKeys(reqs, response) ==
    LET tid == response.transId
        resource == response.resource
        device_id == response.from
        byTid == IF tid # Absent /\ tid \in DOMAIN reqs THEN {tid} ELSE {}
        target == IF device_id # Absent THEN Compound(resource, device_id) ELSE resource
        byResource ==
            IF resource = Absent THEN {}
            ELSE IF resource \in DOMAIN reqs THEN {resource}
            ELSE { request \in DOMAIN reqs : ReMatch(request, target) }
    IN  byTid \cup byResource

\* the map after _event_handle_response(response): self._requests[key] = response
HandleResponseMap(reqs, response) ==
    [ k \in DOMAIN reqs |-> IF k \in ResolvedKeys(reqs, response) THEN response ELSE reqs[k] ]

\* self._lock.notify_all(): every caller blocked in _lock.wait is woken
NotifyAll == [ c \in Callers |-> c_notified[c] \/ c_pc[c] = "waiting" ]

\* ------------------------------------------------------ the shared lock
\* the caller's place is inside "with self._lock:" of _wait_for_transaction
\* (1144-1153); the other places of a caller are between two lock blocks
InLockBlock(c) == c_pc[c] = "waiting"

\* the caller is blocked in self._lock.wait(mend - mnow) (1147): a
\* threading.Condition releases its lock for the time of wait()
InConditionWait(c) == c_pc[c] = "waiting"

\* a Condition whose wait() keeps the lock
HoldsLockInWait(c) == InLockBlock(c)

\* caller c holds self._lock
HoldsLock(c) == InLockBlock(c) /\ ~InConditionWait(c)

\* "with self._lock:" can be entered by the event thread or the client program
LockFree == \A c \in Callers : ~HoldsLock(c)

\* "with self._lock:" can be entered (wait() can return) in caller me
LockFreeFor(me) == \A c \in Callers \ {me} : ~HoldsLock(c)

\* ------------------------------------------- the transaction correlator
\* _start_transaction(tid): with self._lock: self._requests[tid] = None
StartTransactionMap(reqs, tid) == DictSet(reqs, tid, NoneV)

StartTransaction(c, tid) ==
    /\ c_pc[c] \in {"idle", "done"}
    /\ LockFreeFor(c)
    /\ _requests' = StartTransactionMap(_requests, tid)
    /\ c_pc' = [ c_pc EXCEPT ![c] = "started" ]
    /\ c_tid' = [ c_tid EXCEPT ![c] = tid ]
    /\ c_response' = [ c_response EXCEPT ![c] = NoneV ]
    /\ c_arrived' = [ c_arrived EXCEPT ![c] = FALSE ]
    /\ c_cleared' = [ c_cleared EXCEPT ![c] = FALSE ]
    /\ c_expired' = [ c_expired EXCEPT ![c] = FALSE ]
    /\ UNCHANGED << extVars, c_notified, flagVars, threadVars, callVars >>

\* _wait_for_transaction, one evaluation under the lock of
\*   while mnow < mend and self._requests[tid] is None: self._lock.wait(...)
\*   response = self._requests.pop(tid)
\* with KeyError caught: "wait", "pop" or "keyerror"
WaitOutcome(reqs, tid, expired) ==
    IF tid \notin DOMAIN reqs THEN "keyerror"
    ELSE IF ~expired /\ reqs[tid] = NoneV THEN "wait"
    ELSE "pop"

\* variant of PopMap: the entry is read and left in the map
PopMapLeavesEntry(reqs, tid) == reqs

\* self._requests.pop(tid): the map afterwards
PopMap(reqs, tid) == DictDel(reqs, tid)

\* the caller c goes on from one evaluation of the loop
WaitStep(c, expired) ==
    LET outcome == WaitOutcome(_requests, c_tid[c], expired)
    IN  /\ LockFreeFor(c)
        /\ c_expired' = [ c_expired EXCEPT ![c] = expired ]
        /\ c_notified' = [ c_notified EXCEPT ![c] = FALSE ]
        /\ c_pc' = [ c_pc EXCEPT ![c] = IF outcome = "wait" THEN "waiting" ELSE "done" ]
        /\ c_response' = [ c_response EXCEPT ![c] =
                             IF outcome = "pop" THEN _requests[c_tid[c]] ELSE NoneV ]
        /\ _requests' = IF outcome = "pop" THEN PopMap(_requests, c_tid[c]) ELSE _requests
        /\ c_tid' = [ c_tid EXCEPT ![c] = IF outcome = "wait" THEN c_tid[c] ELSE Absent ]
        /\ c_cleared' = [ c_cleared EXCEPT ![c] = outcome = "wait" /\ c_cleared[c] ]
        /\ UNCHANGED << extVars, c_arrived, flagVars, threadVars, callVars >>

\* _wait_for_transaction(tid, timeout) is entered; timeout <= 0 gives mnow >= mend
WaitEnter(c, expired) ==
    /\ c_pc[c] = "started"
    /\ WaitStep(c, expired)

\* self._lock.wait(mend - mnow) returns: notified, or the budget has elapsed
WaitWake(c) ==
    /\ c_pc[c] = "waiting"
    /\ c_notified[c] \/ c_expired[c]
    /\ WaitStep(c, c_expired[c])

\* the monotonic clock reaches mend while the caller is blocked
WaitTimeout(c) ==
    /\ c_pc[c] = "waiting"
    /\ ~c_expired[c]
    /\ c_expired' = [ c_expired EXCEPT ![c] = TRUE ]
    /\ UNCHANGED << extVars, _requests, c_pc, c_tid, c_notified, c_response, c_arrived, c_cleared,
                    flagVars, threadVars, callVars >>

\* _event_handle_response(response), lines 445-479, on the correlator's state
EventHandleResponse(response) ==
    /\ LockFree
    /\ _requests' = HandleResponseMap(_requests, response)
    /\ c_notified' = IF ResolvedKeys(_requests, response) # {} THEN NotifyAll ELSE c_notified
    /\ c_arrived' = [ c \in Callers |->
                        c_arrived[c] \/ ( /\ c_pc[c] \in {"started", "waiting"}
                                          /\ c_tid[c] \in ResolvedKeys(_requests, response) ) ]
    /\ UNCHANGED << c_pc, c_tid, c_expired, c_response, c_cleared >>

\* ------------------------------------------------------ the event thread
\* what a device holds under "allowedMqttTopics": no such key, or a list
TopicLists == { NoneV, [list |-> << >>], [list |-> << "t1" >>], [list |-> << "t1", "t2" >>] }

\* self._arlo.devices
DeviceLists == UNION { [ 1 .. n -> TopicLists ] : n \in 0 .. MaxDevices }

\* _mqtt_topics, lines 518-523: the topics of the devices, in order
RECURSIVE MqttTopics(_)
MqttTopics(devs) ==
    IF Len(devs) = 0 THEN << >>
    ELSE (IF devs[1] = NoneV THEN << >> ELSE devs[1].list) \o MqttTopics(Tail(devs))

\* variant of SelectBackend: the test of the number of topics is inverted
SelectBackendInverted(backend, topics) ==
    IF backend = "auto" THEN topics = 0
    ELSE backend = "mqtt"

\* _select_backend: the value of self._use_mqtt for cfg.event_backend and
\* len(self._mqtt_topics())
SelectBackend(backend, topics) ==
    IF backend = "auto" THEN topics # 0
    ELSE backend = "mqtt"

\* _event_main: while not self._stop_thread
SupTop(t) ==
    /\ t_pc[t] = "top"
    /\ t_pc' = [ t_pc EXCEPT ![t] = IF _stop_thread THEN "dead" ELSE "relogin" ]
    /\ UNCHANGED << extVars, corrVars, flagVars, t_mqtt, t_event, t_handled, h_stop, callVars >>

\* while not self._logged_in: the loop ends, the transport is run next
SupLoggedIn(t) ==
    /\ t_pc[t] = "relogin"
    /\ _logged_in
    /\ t_pc' = [ t_pc EXCEPT ![t] = "transport" ]
    /\ UNCHANGED << extVars, corrVars, flagVars, t_mqtt, t_event, t_handled, h_stop, callVars >>

\* while not self._logged_in: with self._lock: self._lock.wait(5), then _login() is called
SupReloginWait(t) ==
    /\ t_pc[t] = "relogin"
    /\ ~_logged_in
    /\ t_pc' = [ t_pc EXCEPT ![t] = "login" ]
    /\ UNCHANGED << extVars, corrVars, flagVars, t_mqtt, t_event, t_handled, h_stop, callVars >>

\* self._logged_in = self._login()
SupLogin(t, success) ==
    /\ t_pc[t] = "login"
    /\ _logged_in' = success
    /\ t_pc' = [ t_pc EXCEPT ![t] = "relogin" ]
    /\ UNCHANGED << extVars, corrVars, _stop_thread, _event_client, _event_connected, _client_connected,
                    _use_mqtt, t_mqtt, t_event, t_handled, h_stop, callVars >>

\* _mqtt_main / _sse_main up to the receive loop: the handle is created and
\* connected (opened), or the attempt raises. mqtt.Client(...) is assigned
\* before connect() can raise; SSEClient(...) raises before the assignment.
SupTransport(t, opened) ==
    /\ t_pc[t] = "transport"
    /\ t_mqtt' = [ t_mqtt EXCEPT ![t] = _use_mqtt ]
    /\ _event_client' = IF opened \/ _use_mqtt THEN t ELSE _event_client
    /\ h_stop' = [ h_stop EXCEPT ![t] = IF opened \/ _use_mqtt THEN FALSE ELSE h_stop[t] ]
    /\ t_pc' = [ t_pc EXCEPT ![t] = IF opened THEN "recv" ELSE "exited" ]
    /\ t_event' = [ t_event EXCEPT ![t] = IF opened THEN "nothing" ELSE "closed" ]
    /\ t_handled' = [ t_handled EXCEPT ![t] = FALSE ]
    /\ UNCHANGED << extVars, corrVars, _logged_in, _stop_thread, _event_connected, _client_connected,
                    _use_mqtt, callVars >>

\* the blocking receive returns with one event of the given kind
SupReceive(t, kind) ==
    /\ t_pc[t] = "recv"
    /\ kind = "none" => (~t_mqtt[t] /\ h_stop[t])
    /\ t_event' = [ t_event EXCEPT ![t] = kind ]
    /\ t_handled' = [ t_handled EXCEPT ![t] = FALSE ]
    /\ t_pc' = [ t_pc EXCEPT ![t] = "got" ]
    /\ UNCHANGED << extVars, corrVars, flagVars, t_mqtt, h_stop, callVars >>

\* variant of AfterUndecodable: both transports skip the data
AfterUndecodableSkips(mqtt) == "recv"

\* variant of AfterLogout: both transports leave the receive loop
AfterLogoutAborts(mqtt) == "exited"

\* json.loads raises JSONDecodeError: where the thread goes on
\*   _mqtt_on_message: except json.decoder.JSONDecodeError: debug(...), the callback returns
\*   _sse_main:        except json.decoder.JSONDecodeError: debug(...); break
AfterUndecodable(mqtt) == IF mqtt THEN "recv" ELSE "exited"

\* response.get("action", "") == "logout": where the thread goes on
\*   _mqtt_on_message: warning(...); return
\*   _sse_main:        warning(...); break
AfterLogout(mqtt) == IF mqtt THEN "recv" ELSE "exited"

\* the received event is data that does not decode
SupUndecodable(t) ==
    /\ t_pc[t] = "got"
    /\ t_event[t] = "undecodable"
    /\ t_pc' = [ t_pc EXCEPT ![t] = AfterUndecodable(t_mqtt[t]) ]
    /\ UNCHANGED << extVars, corrVars, flagVars, t_mqtt, t_event, t_handled, h_stop, callVars >>

\* the received event is a logout payload
SupLogout(t) ==
    /\ t_pc[t] = "got"
    /\ t_event[t] = "logout"
    /\ t_pc' = [ t_pc EXCEPT ![t] = AfterLogout(t_mqtt[t]) ]
    /\ UNCHANGED << extVars, corrVars, flagVars, t_mqtt, t_event, t_handled, h_stop, callVars >>

\* _mqtt_on_connect, or _sse_main on status == "connected":
\*   with self._lock: self._event_connected = True; self._lock.notify_all()
SupConnected(t) ==
    /\ t_pc[t] = "got"
    /\ t_event[t] = "connected"
    /\ LockFree
    /\ _event_connected' = TRUE
    /\ c_notified' = NotifyAll
    /\ t_pc' = [ t_pc EXCEPT ![t] = "recv" ]
    /\ UNCHANGED << extVars, _requests, c_pc, c_tid, c_expired, c_response, c_arrived, c_cleared,
                    _logged_in, _stop_thread, _event_client, _client_connected, _use_mqtt,
                    t_mqtt, t_event, t_handled, h_stop, callVars >>

\* any other payload: self._event_handle_response(response)
SupPayload(t, response) ==
    /\ t_pc[t] = "got"
    /\ t_event[t] = "payload"
    /\ EventHandleResponse(response)
    /\ t_handled' = [ t_handled EXCEPT ![t] = TRUE ]
    /\ t_pc' = [ t_pc EXCEPT ![t] = "recv" ]
    /\ UNCHANGED << extVars, flagVars, t_mqtt, t_event, h_stop, callVars >>

\* the loop ends: SSE "if event is None: break", an exception, or MQTT
\* loop_forever returns
SupClosed(t) ==
    /\ t_pc[t] = "got"
    /\ t_event[t] \in {"none", "closed"}
    /\ t_pc' = [ t_pc EXCEPT ![t] = "exited" ]
    /\ UNCHANGED << extVars, corrVars, flagVars, t_mqtt, t_event, t_handled, h_stop, callVars >>

\* "clear down and signal out":
\*   with self._lock: self._client_connected = False; self._requests = {}; notify_all()
SupCleanup(t) ==
    /\ t_pc[t] = "exited"
    /\ LockFree
    /\ _client_connected' = "False"
    /\ _requests' = EmptyDict
    /\ c_notified' = NotifyAll
    /\ c_cleared' = [ c \in Callers |-> c_cleared[c] \/ c_pc[c] = "waiting" ]
    /\ t_pc' = [ t_pc EXCEPT ![t] = "cleaned" ]
    /\ t_event' = [ t_event EXCEPT ![t] = "nothing" ]
    /\ t_handled' = [ t_handled EXCEPT ![t] = FALSE ]
    /\ UNCHANGED << extVars, c_pc, c_tid, c_expired, c_response, c_arrived,
                    _logged_in, _stop_thread, _event_client, _event_connected, _use_mqtt,
                    t_mqtt, h_stop, callVars >>

\* variant of SupReset: self._logged_in is left as it is
SupResetKeepsLogin(t) ==
    /\ t_pc[t] = "cleaned"
    /\ _event_client' = NoClient
    /\ t_pc' = [ t_pc EXCEPT ![t] = "top" ]
    /\ UNCHANGED << extVars, corrVars, _logged_in, _stop_thread, _event_connected, _client_connected,
                    _use_mqtt, t_mqtt, t_event, t_handled, h_stop, callVars >>

\* "restart login": self._event_client = None; self._logged_in = False
SupReset(t) ==
    /\ t_pc[t] = "cleaned"
    /\ _event_client' = NoClient
    /\ _logged_in' = FALSE
    /\ t_pc' = [ t_pc EXCEPT ![t] = "top" ]
    /\ UNCHANGED << extVars, corrVars, _stop_thread, _event_connected, _client_connected, _use_mqtt,
                    t_mqtt, t_event, t_handled, h_stop, callVars >>

\* ------------------------------------------- start_monitoring and logout
\* cfg.event_backend
Backends == { "auto", "mqtt", "sse" }

\* no call of start_monitoring has returned
NoResult == [ value |-> FALSE, connected |-> FALSE ]

\* start_monitoring, lines 708-718: the backend is selected, the handle and the
\* connected flag are reset, the event thread is created and started, count = 0,
\* and the caller blocks in its first self._lock.wait(1)
StartMonitoring(backend, topics) ==
    /\ sm_pc \in {"idle", "returned"}
    /\ starts < start_limit
    /\ _use_mqtt' = SelectBackend(backend, topics)
    /\ _event_client' = NoClient
    /\ _event_connected' = FALSE
    /\ starts' = starts + 1
    /\ t_pc' = [ t_pc EXCEPT ![starts + 1] = "top" ]
    /\ sm_count' = 0
    /\ sm_pc' = "waiting"
    /\ sm_result' = NoResult
    /\ UNCHANGED << extVars, corrVars, _logged_in, _stop_thread, _client_connected,
                    t_mqtt, t_event, t_handled, h_stop,
                    start_limit, reconnecting, lo_pc >>

\* the value start_monitoring returns when its wait loop has ended
StartMonitoringResult(connected) == TRUE

\* self._lock.wait(1) returns (notified, or one time unit has passed); count += 1;
\* the loop "while not self._event_connected and count < 30" goes on
StartMonitoringWait ==
    /\ sm_pc = "waiting"
    /\ ~_event_connected /\ sm_count + 1 < StartWaitLimit
    /\ sm_count' = sm_count + 1
    /\ UNCHANGED << extVars, corrVars, flagVars, threadVars, sm_pc, sm_result, starts, start_limit,
                    reconnecting, lo_pc >>

\* self._lock.wait(1) returns, count += 1, and the loop ends; lines 724-731:
\* the reconnect daemon is scheduled for the SSE transport when
\* cfg.reconnect_every != 0, and the call returns
StartMonitoringReturn(reconnect_every) ==
    /\ sm_pc = "waiting"
    /\ _event_connected \/ sm_count + 1 >= StartWaitLimit
    /\ sm_count' = 0
    /\ sm_pc' = "returned"
    /\ sm_result' = [ value |-> StartMonitoringResult(_event_connected),
                      connected |-> _event_connected ]
    /\ reconnecting' = (reconnecting \/ (~_use_mqtt /\ reconnect_every # 0))
    /\ UNCHANGED << extVars, corrVars, flagVars, threadVars, starts, start_limit, lo_pc >>

\* _sse_reconnect, run periodically: if self._event_client is not None: .stop()
SseReconnect ==
    /\ reconnecting
    /\ _event_client # NoClient
    /\ h_stop' = [ h_stop EXCEPT ![_event_client] = TRUE ]
    /\ UNCHANGED << extVars, corrVars, flagVars, t_pc, t_mqtt, t_event, t_handled, callVars >>

\* logout: self._event_stop_loop()
LogoutStop ==
    /\ lo_pc = "idle"
    /\ _stop_thread' = TRUE
    /\ lo_pc' = "check"
    /\ UNCHANGED << extVars, corrVars, _logged_in, _event_client, _event_connected, _client_connected,
                    _use_mqtt, threadVars, sm_pc, sm_count, sm_result, starts, start_limit,
                    reconnecting >>

\* logout: if self._event_client is not None
LogoutCheck ==
    /\ lo_pc = "check"
    /\ lo_pc' = IF _event_client # NoClient THEN "close" ELSE "put"
    /\ UNCHANGED << extVars, corrVars, flagVars, threadVars, sm_pc, sm_count, sm_result, starts,
                    start_limit, reconnecting >>

\* logout: self._event_client.disconnect() / .stop(); the field is read again,
\* and the call raises AttributeError when the event thread has reset it to None
LogoutClose ==
    /\ lo_pc = "close"
    /\ lo_pc' = IF _event_client # NoClient THEN "put" ELSE "raised"
    /\ h_stop' = IF _event_client # NoClient
                 THEN [ h_stop EXCEPT ![_event_client] = TRUE ] ELSE h_stop
    /\ UNCHANGED << extVars, corrVars, flagVars, t_pc, t_mqtt, t_event, t_handled,
                    sm_pc, sm_count, sm_result, starts, start_limit, reconnecting >>

\* logout: self.put(LOGOUT_PATH)
LogoutPut ==
    /\ lo_pc = "put"
    /\ lo_pc' = "done"
    /\ UNCHANGED << extVars, corrVars, flagVars, threadVars, sm_pc, sm_count, sm_result, starts,
                    start_limit, reconnecting >>

\* ------------------------------------------------- the request executor
\* what the HTTP layer gives for one request: an exception, or a status with
\* a body of one of the shapes _request_tuple tells apart
HttpResponses ==
    { [ raised |-> TRUE,  status |-> 0,   shape |-> "none",    meta |-> 0,   ok |-> FALSE ],
      [ raised |-> FALSE, status |-> 401, shape |-> "none",    meta |-> 0,   ok |-> FALSE ],
      [ raised |-> FALSE, status |-> 403, shape |-> "none",    meta |-> 0,   ok |-> FALSE ],
      [ raised |-> FALSE, status |-> 200, shape |-> "meta",    meta |-> 200, ok |-> FALSE ],
      [ raised |-> FALSE, status |-> 200, shape |-> "meta",    meta |-> 401, ok |-> FALSE ],
      [ raised |-> FALSE, status |-> 200, shape |-> "meta",    meta |-> 400, ok |-> FALSE ],
      [ raised |-> FALSE, status |-> 200, shape |-> "success", meta |-> 0,   ok |-> TRUE ],
      [ raised |-> FALSE, status |-> 200, shape |-> "success", meta |-> 0,   ok |-> FALSE ],
      [ raised |-> FALSE, status |-> 200, shape |-> "other",   meta |-> 0,   ok |-> FALSE ] }

\* _request_tuple (raw=False), lines 245-287: the (code, body) it returns; the
\* body is "None", "message" (body["meta"]["message"]) or "data"
RequestTuple(r) ==
    IF r.raised THEN << 500, "None" >>
    ELSE IF r.status # 200 THEN << r.status, "None" >>
    ELSE IF r.shape = "meta"
         THEN IF r.meta = 200 THEN << 200, "data" >> ELSE << r.meta, "message" >>
    ELSE IF r.shape = "success" /\ r.ok THEN << 200, "data" >>
    ELSE << 500, "None" >>

\* method and stream of a call of _request_tuple
Methods == { "GET", "GET-stream", "PUT", "POST", "OPTIONS" }

\* _request_tuple is called and reaches "with self._req_lock" (line 207)
RequestCall(c, method) ==
    /\ rq_pc[c] \in {"idle", "returned"}
    /\ rq_pc' = [ rq_pc EXCEPT ![c] = "acquire" ]
    /\ rq_method' = [ rq_method EXCEPT ![c] = method ]
    /\ rq_result' = [ rq_result EXCEPT ![c] = << 0, "None" >> ]
    /\ UNCHANGED << coreVars, authVars, identVars, storeVars, dispVars, selVars, _req_lock >>

\* the lock is acquired; lines 208-218 build the url and the headers
RequestAcquire(c) ==
    /\ rq_pc[c] = "acquire"
    /\ _req_lock = NoOwner
    /\ _req_lock' = c
    /\ rq_pc' = [ rq_pc EXCEPT ![c] = "built" ]
    /\ UNCHANGED << coreVars, authVars, identVars, storeVars, dispVars, selVars, rq_method,
                    rq_result >>

\* lines 220-243: self._session.get / put / post / options is called and sends
\* the request; the call returns when the response has come
RequestSend(c) ==
    /\ rq_pc[c] = "built"
    /\ rq_pc' = [ rq_pc EXCEPT ![c] = "sent" ]
    /\ UNCHANGED << coreVars, authVars, identVars, storeVars, dispVars, selVars, rq_method,
                    rq_result, _req_lock >>

\* variant of RequestResponse: the with block is left with the lock still held
RequestResponseKeepsLock(c, r) ==
    /\ rq_pc[c] = "sent"
    /\ rq_pc' = [ rq_pc EXCEPT ![c] = "returned" ]
    /\ rq_result' = [ rq_result EXCEPT ![c] =
                        IF r.raised THEN << 500, "None" >>
                        ELSE IF rq_method[c] = "GET-stream" THEN << 200, "r" >>
                        ELSE IF rq_method[c] = "OPTIONS" THEN << 200, "None" >>
                        ELSE RequestTuple(r) ]
    /\ UNCHANGED << coreVars, authVars, identVars, storeVars, dispVars, selVars, rq_method,
                    _req_lock >>

\* the response r has come, or the call has raised: the with block is left
\* (by the returns at 230 and 243, by the exception, or at its end) and the
\* lock released; lines 248-287 give the result
RequestResponse(c, r) ==
    /\ rq_pc[c] = "sent"
    /\ _req_lock' = NoOwner
    /\ rq_pc' = [ rq_pc EXCEPT ![c] = "returned" ]
    /\ rq_result' = [ rq_result EXCEPT ![c] =
                        IF r.raised THEN << 500, "None" >>
                        ELSE IF rq_method[c] = "GET-stream" THEN << 200, "r" >>
                        ELSE IF rq_method[c] = "OPTIONS" THEN << 200, "None" >>
                        ELSE RequestTuple(r) ]
    /\ UNCHANGED << coreVars, authVars, identVars, storeVars, dispVars, selVars, rq_method >>

\* ------------------------------------------------------------ the login
UserU == << "u" >>

Tokens == { << "k1" >>, << "k2" >> }

BrowserCode == << "b" >>

\* the data of a successful authentication response, as _update_auth_info
\* reads it; browserAuthCode Absent: the body has no such key
AuthBodies ==
    [ userId : {UserU}, token : Tokens, expiresIn : {1}, browserAuthCode : {Absent, BrowserCode} ]

\* self._user_id + "_web"
WebId(user_id) == user_id \o << "_web" >>

\* "subscriptions/" + self._web_id
SubId(web_id) == << "subscriptions/" >> \o web_id

\* _update_auth_info(body), lines 745-756
UpdateAuthInfo(b) ==
    /\ _token' = b.token
    /\ _user_id' = b.userId
    /\ _web_id' = WebId(b.userId)
    /\ _sub_id' = SubId(WebId(b.userId))
    /\ _expires_in' = b.expiresIn
    /\ _browser_auth_code' = IF b.browserAuthCode # Absent THEN b.browserAuthCode
                             ELSE _browser_auth_code
    /\ UNCHANGED _user_device_id

cfgVars == << curves, tfa_source, tfa_retries >>

credVars == << attempt, code, body, codes, sleeps >>

tfaVars == << tfa, tries, _needs_pairing, factor_id, quick >>

runVars == << curve, l_result, outcomes, saves >>

\* _login is entered (from __init__, line 99): success = AuthResult.FAILED
LoginBegin ==
    /\ l_pc = "idle"
    /\ l_result = "none"
    /\ s_last = "loaded"
    /\ _user_device_id # Absent
    /\ l_success' = "FAILED"
    /\ l_pc' = "for"
    /\ UNCHANGED << coreVars, dispVars, sideVars, cfgVars, credVars, tfaVars, runVars, identVars, storeVars >>

\* for curve in self._arlo.cfg.ecdh_curves: the next curve and a new session,
\* then _auth is entered (attempt = 0, code = 0, body = None); or the list is
\* exhausted
LoginFor ==
    /\ l_pc = "for"
    /\ IF curve < curves
       THEN /\ curve' = curve + 1
            /\ l_pc' = "cred"
            /\ attempt' = 0
            /\ code' = 0
            /\ body' = "None"
            /\ codes' = << >>
            /\ sleeps' = 0
            /\ tfa' = "unused"
            /\ tries' = 0
            /\ factor_id' = FALSE
            /\ quick' = FALSE
            /\ UNCHANGED _needs_pairing
       ELSE /\ l_pc' = "after"
            /\ UNCHANGED << curve, credVars, tfaVars >>
    /\ UNCHANGED << coreVars, dispVars, sideVars, cfgVars, l_success, l_result, outcomes, saves, identVars, storeVars >>

\* _auth returns r to _login (line 1087: success = self._auth())
AuthReturn(r) ==
    /\ l_success' = r
    /\ l_pc' = "auth_ret"

\* one turn of "while attempt < 3": the credentials are posted
AuthAttempt(r) ==
    /\ l_pc = "cred"
    /\ attempt < LoginAttempts
    /\ attempt' = attempt + 1
    /\ code' = RequestTuple(r)[1]
    /\ body' = RequestTuple(r)[2]
    /\ codes' = Append(codes, RequestTuple(r)[1])
    /\ l_pc' = IF RequestTuple(r)[1] \in {200, 401} THEN "cred_done" ELSE "sleep"
    /\ UNCHANGED << coreVars, dispVars, sideVars, cfgVars, sleeps, tfaVars, runVars, l_success, identVars, storeVars >>

\* time.sleep(3), then the loop condition
AuthSleep ==
    /\ l_pc = "sleep"
    /\ sleeps' = sleeps + 1
    /\ l_pc' = IF attempt < LoginAttempts THEN "cred" ELSE "cred_done"
    /\ UNCHANGED << coreVars, dispVars, sideVars, cfgVars, attempt, code, body, codes, tfaVars, runVars, l_success,
                    identVars, storeVars >>

\* lines 841-853: the result of the credential step
AuthCredResult(b, authCompleted) ==
    /\ l_pc = "cred_done"
    /\ IF body = "None"
       THEN AuthReturn("CAN_RETRY") /\ UNCHANGED identVars
       ELSE IF code # 200
       THEN AuthReturn("FAILED") /\ UNCHANGED identVars
       ELSE /\ UpdateAuthInfo(b)
            /\ IF authCompleted
               THEN AuthReturn("SUCCESS")
               ELSE l_pc' = "factorid" /\ UNCHANGED l_success
    /\ UNCHANGED << coreVars, dispVars, sideVars, cfgVars, credVars, tfaVars, runVars, storeVars >>

\* lines 855-883: the AUTH_GET_FACTORID request
AuthFactorId(ok) ==
    /\ l_pc = "factorid"
    /\ code' = IF ok THEN 200 ELSE 400
    /\ quick' = ok
    /\ factor_id' = ok
    /\ _needs_pairing' = ~ok
    /\ l_pc' = IF ok THEN "quick_start" ELSE "factors"
    /\ UNCHANGED << coreVars, dispVars, sideVars, cfgVars, attempt, body, codes, sleeps, tfa, tries, runVars, l_success,
                    identVars, storeVars >>

\* lines 884-907: the list of second factors: "None" (the request failed),
\* "nomatch" (no factor of cfg.tfa_type), "match"
AuthFactors(factors) ==
    /\ l_pc = "factors"
    /\ IF factors = "match"
       THEN /\ factor_id' = TRUE
            /\ l_pc' = IF tfa_source = "push" THEN "push_start" ELSE "tfa_start"
            /\ UNCHANGED l_success
       ELSE /\ AuthReturn("FAILED")
            /\ UNCHANGED factor_id
    /\ UNCHANGED << coreVars, dispVars, sideVars, cfgVars, credVars, tfa, tries, _needs_pairing, quick, runVars,
                    identVars, storeVars >>

\* lines 909-919: the browser factor is started, no code is needed
AuthQuickStart(ok, b) ==
    /\ l_pc = "quick_start"
    /\ code' = IF ok THEN 200 ELSE 400
    /\ IF ok
       THEN UpdateAuthInfo(b) /\ AuthReturn("SUCCESS")
       ELSE UNCHANGED identVars /\ AuthReturn("FAILED")
    /\ UNCHANGED << coreVars, dispVars, sideVars, cfgVars, attempt, body, codes, sleeps, tfaVars, runVars, storeVars >>

\* lines 921-925: tfa.start()
TfaStart(ok) ==
    /\ l_pc = "tfa_start"
    /\ IF ok
       THEN tfa' = "started" /\ l_pc' = "start_post" /\ UNCHANGED l_success
       ELSE UNCHANGED tfa /\ AuthReturn("FAILED")
    /\ UNCHANGED << coreVars, dispVars, sideVars, cfgVars, credVars, tries, _needs_pairing, factor_id, quick, runVars,
                    identVars, storeVars >>

\* lines 931-941: the AUTH_START_PATH request of the code-based path
AuthStartPost(ok) ==
    /\ l_pc = "start_post"
    /\ code' = IF ok THEN 200 ELSE 400
    /\ IF ok
       THEN l_pc' = "tfa_get" /\ UNCHANGED l_success
       ELSE AuthReturn("CAN_RETRY")
    /\ UNCHANGED << coreVars, dispVars, sideVars, cfgVars, attempt, body, codes, sleeps, tfaVars, runVars, identVars, storeVars >>

\* a one-time code that tfa.get() returns
OtpCode == 123456

\* tfa.get() returns None (nothing reads the variable afterwards)
NoOtp == 0

\* variant of TfaGet: a missing code is fatal
TfaGetFatal(got) ==
    /\ l_pc = "tfa_get"
    /\ code' = IF got THEN OtpCode ELSE NoOtp
    /\ IF got
       THEN l_pc' = "tfa_stop" /\ UNCHANGED l_success
       ELSE AuthReturn("FAILED")
    /\ UNCHANGED << coreVars, dispVars, sideVars, cfgVars, attempt, body, codes, sleeps, tfaVars, runVars, identVars,
                    storeVars >>

\* lines 943-947: code = tfa.get()
TfaGet(got) ==
    /\ l_pc = "tfa_get"
    /\ code' = IF got THEN OtpCode ELSE NoOtp
    /\ IF got
       THEN l_pc' = "tfa_stop" /\ UNCHANGED l_success
       ELSE AuthReturn("CAN_RETRY")
    /\ UNCHANGED << coreVars, dispVars, sideVars, cfgVars, attempt, body, codes, sleeps, tfaVars, runVars, identVars, storeVars >>

\* line 950: tfa.stop()
TfaStop ==
    /\ l_pc = "tfa_stop"
    /\ tfa' = "stopped"
    /\ l_pc' = "finish"
    /\ UNCHANGED << coreVars, dispVars, sideVars, cfgVars, credVars, tries, _needs_pairing, factor_id, quick, runVars,
                    l_success, identVars, storeVars >>

\* lines 952-964 and 1002-1005: the AUTH_FINISH_PATH request with the code
AuthFinish(ok, b) ==
    /\ l_pc = "finish"
    /\ code' = IF ok THEN 200 ELSE 400
    /\ IF ok
       THEN UpdateAuthInfo(b) /\ AuthReturn("SUCCESS")
       ELSE UNCHANGED identVars /\ AuthReturn("FAILED")
    /\ UNCHANGED << coreVars, dispVars, sideVars, cfgVars, attempt, body, codes, sleeps, tfaVars, runVars, storeVars >>

\* lines 966-980: the AUTH_START_PATH request of the push path
AuthPushStart(ok) ==
    /\ l_pc = "push_start"
    /\ code' = IF ok THEN 200 ELSE 400
    /\ IF ok
       THEN tries' = 1 /\ l_pc' = "push_finish" /\ UNCHANGED l_success
       ELSE UNCHANGED tries /\ AuthReturn("FAILED")
    /\ UNCHANGED << coreVars, dispVars, sideVars, cfgVars, attempt, body, codes, sleeps, tfa, _needs_pairing, factor_id, quick, runVars,
                    identVars, storeVars >>

\* lines 981-1005: one turn of the push path's "while True"
AuthPushFinish(ok, b) ==
    /\ l_pc = "push_finish"
    /\ code' = IF ok THEN 200 ELSE 400
    /\ IF ok
       THEN UpdateAuthInfo(b) /\ AuthReturn("SUCCESS") /\ UNCHANGED tries
       ELSE /\ UNCHANGED identVars
            /\ IF tries < tfa_retries
               THEN tries' = tries + 1 /\ UNCHANGED << l_pc, l_success >>
               ELSE UNCHANGED tries /\ AuthReturn("FAILED")
    /\ UNCHANGED << coreVars, dispVars, sideVars, cfgVars, attempt, body, codes, sleeps, tfa, _needs_pairing, factor_id, quick, runVars,
                    storeVars >>


\* ---------------------------------------------------- the session store
\* cfg.username, and another account of the same session file
Username == "A"

OtherUser == "B"

DeviceId == << "dev" >>

\* the keys _load_session reads with session_info[key], in the order it reads
MandatoryKeys == << "user_id", "web_id", "sub_id", "token", "expires_in" >>

\* the dictionary _save_session stores for an account
SessionEntry(user_id, web_id, sub_id, token, expires_in, browser_auth_code, device_id) ==
    [ user_id |-> user_id, web_id |-> web_id, sub_id |-> sub_id, token |-> token,
      expires_in |-> expires_in, browser_auth_code |-> browser_auth_code,
      device_id |-> device_id ]

\* a dictionary without the key k
DictWithout(d, k) == [ f \in (DOMAIN d) \ {k} |-> d[f] ]

\* no file at cfg.session_file: open() raises
NoFile == [ missing |-> TRUE ]

\* a file that pickle.load rejects
CorruptFile == [ corrupt |-> TRUE ]

\* a file holding the pickled dictionary d
PickleDump(d) == [ data |-> d ]

\* {"version": "2"}
EmptyContainer == "version" :> "2"

\* _session_info.get("version", 1), as a string
ContainerVersion(info) == IF "version" \in DOMAIN info THEN info["version"] ELSE "1"

\* how many of the mandatory keys lines 128-132 read before a KeyError
KeysRead(session_info) ==
    CHOOSE n \in 0 .. Len(MandatoryKeys) :
        /\ \A i \in 1 .. n : MandatoryKeys[i] \in DOMAIN session_info
        /\ n = Len(MandatoryKeys) \/ MandatoryKeys[n + 1] \notin DOMAIN session_info

\* the value line 127+i leaves in the i-th identity field
FieldRead(session_info, i, default) ==
    IF session_info # NoneV /\ i <= KeysRead(session_info)
    THEN session_info[MandatoryKeys[i]] ELSE default

\* variant of OptionalRead: the optional keys are not read
OptionalReadNone(session_info, key) == Absent

\* lines 133-136: the value of an optional key, after the mandatory ones were read
OptionalRead(session_info, key) ==
    IF /\ session_info # NoneV
       /\ KeysRead(session_info) = Len(MandatoryKeys)
       /\ key \in DOMAIN session_info
    THEN session_info[key] ELSE Absent

\* lines 118-126: the dictionary the fields are read from (NoneV: no entry for
\* the account)
LoadedEntry(info) ==
    IF ContainerVersion(info) = "2"
    THEN IF Username \in DOMAIN info THEN info[Username] ELSE NoneV
    ELSE info

\* variant of LoadedContainer: a version-1 dictionary is kept as it is
LoadedContainerUnmigrated(file) ==
    IF "data" \notin DOMAIN file THEN EmptyContainer
    ELSE IF LoadedEntry(file.data) # NoneV
            /\ KeysRead(LoadedEntry(file.data)) < Len(MandatoryKeys) THEN EmptyContainer
    ELSE file.data

\* lines 118-126 and 140-144: ArloBackEnd._session_info after the load
LoadedContainer(file) ==
    IF "data" \notin DOMAIN file THEN EmptyContainer
    ELSE IF LoadedEntry(file.data) # NoneV
            /\ KeysRead(LoadedEntry(file.data)) < Len(MandatoryKeys) THEN EmptyContainer
    ELSE IF ContainerVersion(file.data) = "2" THEN file.data
    ELSE EmptyContainer @@ (Username :> file.data)

\* the per-run state of a new ArloBackEnd: nothing of _login has run
NewRun ==
    /\ l_pc' = "idle"
    /\ l_result' = "none"
    /\ l_success' = "FAILED"
    /\ curve' = 0
    /\ attempt' = 0
    /\ code' = 0
    /\ body' = "None"
    /\ codes' = << >>
    /\ sleeps' = 0
    /\ outcomes' = << >>
    /\ saves' = 0
    /\ tfa' = "unused"
    /\ tries' = 0
    /\ _needs_pairing' = FALSE
    /\ factor_id' = FALSE
    /\ quick' = FALSE

\* _load_session, lines 104-144, from __init__ (line 85) of a new ArloBackEnd:
\* the first one, or one made after an earlier one has logged in and saved
LoadSession ==
    /\ s_last \in {"new", "saved"}
    /\ l_pc = "idle"
    /\ s_last = "saved" => l_result # "none"
    /\ s_last' = "loaded"
    /\ NewRun
    /\ LET entry == IF save_session /\ "data" \in DOMAIN session_file
                    THEN LoadedEntry(session_file.data) ELSE NoneV
       IN  /\ _user_id' = FieldRead(entry, 1, Absent)
           /\ _web_id' = FieldRead(entry, 2, Absent)
           /\ _sub_id' = FieldRead(entry, 3, Absent)
           /\ _token' = FieldRead(entry, 4, Absent)
           /\ _expires_in' = FieldRead(entry, 5, 0)
           /\ _browser_auth_code' = OptionalRead(entry, "browser_auth_code")
           /\ _user_device_id' = OptionalRead(entry, "device_id")
    /\ _session_info' = IF save_session THEN LoadedContainer(session_file) ELSE _session_info
    /\ UNCHANGED << coreVars, dispVars, sideVars, cfgVars, session_file, save_session >>

\* __init__, lines 86-88: self._user_device_id = str(uuid.uuid4())
NewDeviceId ==
    /\ s_last = "loaded"
    /\ l_pc = "idle"
    /\ l_result = "none"
    /\ _user_device_id = Absent
    /\ _user_device_id' = DeviceId
    /\ UNCHANGED << coreVars, dispVars, sideVars, authVars, _user_id, _web_id, _sub_id, _token, _expires_in,
                    _browser_auth_code, storeVars >>

\* the entry _save_session builds, lines 152-160
SavedEntry ==
    SessionEntry(_user_id, _web_id, _sub_id, _token, _expires_in, _browser_auth_code,
                 _user_device_id)

\* _save_session, lines 146-164, on the store; writable: open(..., "wb") succeeds
SaveSession(writable) ==
    IF save_session /\ writable
    THEN /\ _session_info' = (Username :> SavedEntry) @@ _session_info
         /\ session_file' = PickleDump((Username :> SavedEntry) @@ _session_info)
    ELSE UNCHANGED << _session_info, session_file >>

\* ----------------------------------------------------- _login, continued
\* _login returns (to __init__, line 99: self._logged_in = self._login())
LoginReturn(result) ==
    /\ l_result' = IF result THEN "True" ELSE "False"
    /\ l_pc' = "idle"
    /\ _logged_in' = result
    /\ UNCHANGED << corrVars, _stop_thread, _event_client, _event_connected, _client_connected,
                    _use_mqtt, threadVars, callVars, dispVars, sideVars >>

\* lines 1087-1093: what _login does with the result of _auth
LoginAuthResult ==
    /\ l_pc = "auth_ret"
    /\ outcomes' = IF l_success = "SUCCESS" THEN outcomes ELSE Append(outcomes, l_success)
    /\ IF l_success = "FAILED"
       THEN LoginReturn(FALSE) /\ UNCHANGED l_success
       ELSE /\ l_pc' = IF l_success = "SUCCESS" THEN "validate" ELSE "for"
            /\ l_success' = IF l_success = "SUCCESS" THEN l_success ELSE "FAILED"
            /\ UNCHANGED << l_result, coreVars, dispVars, sideVars >>
    /\ UNCHANGED << cfgVars, credVars, tfaVars, curve, saves, identVars, storeVars >>

\* line 1090: self._validate(), lines 1007-1018
LoginValidate(validated) ==
    /\ l_pc = "validate"
    /\ IF validated
       THEN l_pc' = "pair" /\ UNCHANGED << l_success, outcomes >>
       ELSE /\ l_success' = "FAILED"
            /\ outcomes' = Append(outcomes, "validate")
            /\ l_pc' = "for"
    /\ UNCHANGED << coreVars, dispVars, sideVars, cfgVars, credVars, tfaVars, curve, l_result, saves, identVars,
                    storeVars >>

\* _pair_auth_code, lines 1020-1046: its result when the pairing request
\* (if one is made) answers code 200 or not
PairAuthCode(ok) == ~_needs_pairing \/ _browser_auth_code = Absent \/ ok

\* line 1090: self._pair_auth_code(), then break (1091) or 1092-1093
LoginPair(ok) ==
    /\ l_pc = "pair"
    /\ IF PairAuthCode(ok)
       THEN /\ l_pc' = "after"
            /\ outcomes' = Append(outcomes, "SUCCESS")
            /\ UNCHANGED l_success
       ELSE /\ l_success' = "FAILED"
            /\ outcomes' = Append(outcomes, "pair")
            /\ l_pc' = "for"
    /\ UNCHANGED << coreVars, dispVars, sideVars, cfgVars, credVars, tfaVars, curve, l_result, saves, identVars,
                    storeVars >>

\* variant of LoginAfter: the result of the loop is not tested
LoginAfterAlwaysSaves ==
    /\ l_pc = "after"
    /\ l_pc' = "save"
    /\ UNCHANGED << l_result, coreVars, dispVars, sideVars >>
    /\ UNCHANGED << cfgVars, credVars, tfaVars, curve, outcomes, saves, l_success, identVars,
                    storeVars >>

\* lines 1095-1096: after the loop
LoginAfter ==
    /\ l_pc = "after"
    /\ IF l_success # "SUCCESS"
       THEN LoginReturn(FALSE)
       ELSE l_pc' = "save" /\ UNCHANGED << l_result, coreVars, dispVars, sideVars >>
    /\ UNCHANGED << cfgVars, credVars, tfaVars, curve, outcomes, saves, l_success, identVars,
                    storeVars >>

\* line 1099: self._save_session()
LoginSave(writable) ==
    /\ l_pc = "save"
    /\ SaveSession(writable)
    /\ saves' = saves + 1
    /\ s_last' = IF save_session /\ writable THEN "saved" ELSE s_last
    /\ l_pc' = "v2"
    /\ UNCHANGED << coreVars, dispVars, sideVars, cfgVars, credVars, tfaVars, curve, l_result, outcomes, l_success,
                    identVars, save_session >>

\* lines 1107-1109: self._v2_session(), lines 1048-1060
LoginV2(ok) ==
    /\ l_pc = "v2"
    /\ LoginReturn(ok)
    /\ UNCHANGED << cfgVars, credVars, tfaVars, curve, outcomes, saves, l_success, identVars,
                    storeVars >>

\* no call of _request_tuple
NoRequest ==
    /\ rq_pc = [ c \in Callers |-> "idle" ]
    /\ rq_method = [ c \in Callers |-> "GET" ]
    /\ rq_result = [ c \in Callers |-> << 0, "None" >> ]
    /\ _req_lock = NoOwner

\* the stream transport is configured and there is no device
NoDevices ==
    /\ event_backend = "sse"
    /\ devices = << >>

\* no listener and no injected payload
NoInject ==
    /\ _callbacks = EmptyDict
    /\ listeners = 0
    /\ d_pc = "idle"
    /\ d_response = NoneV
    /\ responses = << >>
    /\ scheduled = << >>

\* the login and the session store before anything of them has run, for one
\* configuration; no listener
NoLogin ==
    /\ NoInject
    /\ NoRequest
    /\ l_pc = "idle"
    /\ l_result = "none"
    /\ l_success = "FAILED"
    /\ curve = 0
    /\ attempt = 0
    /\ code = 0
    /\ body = "None"
    /\ codes = << >>
    /\ sleeps = 0
    /\ outcomes = << >>
    /\ saves = 0
    /\ tfa = "unused"
    /\ tries = 0
    /\ _needs_pairing = FALSE
    /\ factor_id = FALSE
    /\ quick = FALSE
    /\ _user_id = Absent
    /\ _web_id = Absent
    /\ _sub_id = Absent
    /\ _token = Absent
    /\ _expires_in = 0
    /\ _browser_auth_code = Absent
    /\ _user_device_id = Absent
    /\ _session_info = EmptyDict
    /\ s_last = "new"

\* the configuration and the session file of the specifications that do not
\* run the login
NoLoginCfg ==
    /\ NoLogin
    /\ NoDevices
    /\ curves = 1
    /\ tfa_source = "provider"
    /\ tfa_retries = 1
    /\ save_session = FALSE
    /\ session_file = NoFile

\* ------------------------------------------------------- the dispatcher
\* self._resource_types (line 83); the names hold no "/"
ResourceTypes == { <<"cameras">>, <<"modes">> }

\* s.startswith(prefix)
StartsWith(s, prefix) == Len(prefix) <= Len(s) /\ SubSeq(s, 1, Len(prefix)) = prefix

\* s.split("/"): the segments of s between its "/"
RECURSIVE Split(_)
Split(s) ==
    IF \A i \in 1 .. Len(s) : s[i] # "/" THEN << s >>
    ELSE LET i == CHOOSE i \in 1 .. Len(s) : s[i] = "/" /\ \A j \in 1 .. (i - 1) : s[j] # "/"
         IN  << SubSeq(s, 1, i - 1) >> \o Split(SubSeq(s, i + 1, Len(s)))

\* the keys of a payload with a string value, and those with a dict or list
\* value; a payload is a record of all of them, a missing key Absent or NoneV
StringKeys == { "resource", "transId", "from", "deviceId", "uniqueId", "locationId" }

\* "key in response"
HasKey(response, key) ==
    /\ key \in DOMAIN response
    /\ IF key \in StringKeys THEN response[key] # Absent ELSE response[key] # NoneV

\* the order of the keys in the payload, for "for device_id in response"
KeyOrder ==
    << "resource", "transId", "from", "states", "properties", "devices", "deviceId", "uniqueId",
       "locationId", "d" >>

\* the resources of the injected payloads: "" (no resource), the keep-alive,
\* the mode response, "<type>/<id>" with and without further segments or id,
\* a bare type, a longer name than a type, "devices", the audio playback
\* resources, and a resource of no case
DispatchResources ==
    { Absent,
      <<"subscriptions", "/", "s">>,
      <<"activeAutomations">>,
      <<"cameras", "/", "d">>,
      <<"cameras", "/", "d", "/", "x">>,
      <<"cameras", "/">>,
      <<"cameras">>,
      <<"cameras", "x", "/", "d">>,
      <<"devices">>,
      <<"audioPlayback", "/", "status">>,
      <<"audioPlayback">>,
      ResAB }

\* the decoded payloads handed to the dispatcher: beside "resource", "from"
\* and "states" a payload carries "properties", "devices", an automation of
\* device d, or ids under "deviceId", "uniqueId" and "locationId"
DispatchPayloads ==
    { p \in [ resource : DispatchResources,
              from : {Absent, DevD},
              states : {NoneV, [mode |-> <<"m">>]},
              properties : {NoneV,
                            [list |-> << [serialNumber |-> <<"s">>], [serialNumber |-> Absent] >>],
                            [dict |-> [k |-> <<"v">>]]},
              devices : {NoneV, [d |-> [k |-> <<"v">>], e |-> [k |-> <<"w">>]]},
              deviceId : {Absent, <<"i">>},
              uniqueId : {Absent, <<"u">>},
              locationId : {Absent, <<"l">>},
              d : {NoneV, [list |-> << >>]} ] :
        Cardinality({ k \in {"properties", "devices", "d"} : HasKey(p, k) }
                    \cup { k \in {"deviceId"} :
                             \E j \in {"deviceId", "uniqueId", "locationId"} : HasKey(p, j) })
            <= 1 }

\* variant of PathDeviceId: the first segment of the path
PathDeviceIdFirstSegment(resource) == Split(resource)[1]

\* line 359: resource.split("/")[1]
PathDeviceId(resource) == Split(resource)[2]

\* _event_dispatcher, lines 311-412: responses, the triples of the payload
DispatcherResponses(response) ==
    LET resource == response.resource
        from_id == response.from
    IN  IF StartsWith(resource, <<"subscriptions", "/">>) THEN << >>
        ELSE IF resource = <<"activeAutomations">>
        THEN LET keys == SelectSeq(KeyOrder, LAMBDA k : k # "resource" /\ HasKey(response, k))
             IN  [ i \in 1 .. Len(keys) |-> << << keys[i] >>, resource, response[keys[i]] >> ]
        ELSE IF response.states # NoneV
        THEN IF from_id # Absent THEN << << from_id, <<"states">>, response.states >> >>
             ELSE << >>
        ELSE IF \E x \in ResourceTypes : StartsWith(resource, x \o <<"/">>)
        THEN << << PathDeviceId(resource), resource, response >> >>
        ELSE IF resource = <<"devices">>
        THEN IF response.devices = NoneV THEN << >>
             ELSE LET keys == SelectSeq(<<"d", "e">>, LAMBDA k : k \in DOMAIN response.devices)
                  IN  [ i \in 1 .. Len(keys) |->
                          << << keys[i] >>, resource, response.devices[keys[i]] >> ]
        ELSE IF resource \in ResourceTypes
        THEN IF response.properties = NoneV THEN << >>
             ELSE IF "list" \in DOMAIN response.properties
             THEN LET props == response.properties.list
                  IN  [ i \in 1 .. Len(props) |->
                          << IF props[i].serialNumber # Absent THEN props[i].serialNumber
                             ELSE from_id,
                             resource, props[i] >> ]
             ELSE << << from_id, resource, response >> >>
        ELSE IF StartsWith(resource, <<"audioPlayback">>)
        THEN LET properties == IF resource = <<"audioPlayback", "/", "status">>
                               THEN [status |-> response.properties]
                               ELSE response.properties
             IN  IF from_id # Absent /\ properties # NoneV
                 THEN << << from_id, resource, properties >> >>
                 ELSE << >>
        ELSE LET device_id == IF response.deviceId # Absent THEN response.deviceId
                              ELSE IF response.uniqueId # Absent THEN response.uniqueId
                              ELSE response.locationId
             IN  IF device_id # Absent THEN << << device_id, resource, response >> >>
                 ELSE << >>

\* variant of CallbacksOf: the callbacks under "all" are left out
CallbacksOfDeviceOnly(callbacks, device_id) ==
    IF device_id # Absent /\ device_id \in DOMAIN callbacks THEN callbacks[device_id] ELSE << >>

\* lines 418-423: cbs, the callbacks of one triple
CallbacksOf(callbacks, device_id) ==
    (IF device_id # Absent /\ device_id \in DOMAIN callbacks THEN callbacks[device_id]
     ELSE << >>)
    \o (IF <<"all">> \in DOMAIN callbacks THEN callbacks[<<"all">>] ELSE << >>)

\* lines 416-425: the calls of bg.run for the triples, in order
RECURSIVE Deliveries(_, _)
Deliveries(callbacks, triples) ==
    IF Len(triples) = 0 THEN << >>
    ELSE LET cbs == CallbacksOf(callbacks, triples[1][1])
         IN  [ i \in 1 .. Len(cbs) |-> << cbs[i], triples[1][2], triples[1][3] >> ]
             \o Deliveries(callbacks, Tail(triples))

\* the devices and the callbacks of the client program: a device whose unique
\* id is its device id, and one with another unique id
Devices == { [device_id |-> DevD, unique_id |-> DevD],
             [device_id |-> <<"e">>, unique_id |-> <<"u">>] }

ListenerCallbacks == { "cb1", "cb2" }

\* self._callbacks[key].append(callback), the list created when missing
AppendCallback(callbacks, key, callback) ==
    DictSet(callbacks, key,
            (IF key \in DOMAIN callbacks THEN callbacks[key] ELSE << >>) \o << callback >>)

\* add_listener(device, callback)
AddListener(device, callback) ==
    /\ d_pc = "idle"
    /\ listeners < MaxListeners
    /\ listeners' = listeners + 1
    /\ _callbacks' = AppendCallback(AppendCallback(_callbacks, device.device_id, callback),
                                    device.unique_id, callback)
    /\ UNCHANGED << coreVars, authVars, identVars, storeVars, sideVars, d_pc, d_response, responses,
                    scheduled >>

\* add_any_listener(callback)
AddAnyListener(callback) ==
    /\ d_pc = "idle"
    /\ listeners < MaxListeners
    /\ listeners' = listeners + 1
    /\ _callbacks' = AppendCallback(_callbacks, <<"all">>, callback)
    /\ UNCHANGED << coreVars, authVars, identVars, storeVars, sideVars, d_pc, d_response, responses,
                    scheduled >>

\* a del_listener that removes the device's lists
DelListenerRemoves(device, callback) ==
    /\ _callbacks' = [ key \in DOMAIN _callbacks \ {device.device_id, device.unique_id} |->
                         _callbacks[key] ]
    /\ UNCHANGED << coreVars, authVars, identVars, storeVars, sideVars, listeners, d_pc,
                    d_response, responses, scheduled >>

\* del_listener(device, callback): pass
DelListener(device, callback) ==
    UNCHANGED vars

\* ev_inject(response): self._event_dispatcher(response)
EvInject(response) ==
    /\ d_pc = "idle"
    /\ d_pc' = "dispatched"
    /\ d_response' = response
    /\ responses' = DispatcherResponses(response)
    /\ scheduled' = Deliveries(_callbacks, DispatcherResponses(response))
    /\ UNCHANGED << coreVars, authVars, identVars, storeVars, sideVars, _callbacks, listeners >>

\* the payloads the transport delivers to _event_handle_response: those of
\* the dispatcher, with or without a transaction id
HandlePayloads ==
    { [ k \in DOMAIN p \cup {"transId"} |-> IF k = "transId" THEN tid ELSE p[k] ] :
        p \in DispatchPayloads, tid \in {Absent, TidT} }

\* the keys registered when the payload arrives: a transaction id, resource
\* names and regular expressions
HandleKeys ==
    { TidT, ResAB, <<"a", ".", "*">>, <<"subscriptions", "/", "s">>, <<"subscriptions", ".", "*">> }

\* line 443: self._event_dispatcher(response)
RunDispatcher(response) ==
    /\ d_pc' = "dispatched"
    /\ d_response' = response
    /\ responses' = DispatcherResponses(response)
    /\ scheduled' = Deliveries(_callbacks, DispatcherResponses(response))
    /\ UNCHANGED << _callbacks, listeners >>

\* variant of EventHandle: the return of the dispatcher at a keep-alive ends
\* the handler
EventHandleKeepAliveReturns(response) ==
    /\ RunDispatcher(response)
    /\ IF StartsWith(response.resource, <<"subscriptions", "/">>)
       THEN UNCHANGED corrVars
       ELSE EventHandleResponse(response)

\* _event_handle_response(response), lines 427-479: the dispatcher, then the
\* pending transactions
EventHandle(response) ==
    /\ RunDispatcher(response)
    /\ EventHandleResponse(response)

\* the event thread hands its first payload to _event_handle_response
SupHandle(t, response) ==
    /\ t_pc[t] = "got"
    /\ t_event[t] = "payload"
    /\ d_pc = "idle"
    /\ EventHandle(response)
    /\ t_handled' = [ t_handled EXCEPT ![t] = TRUE ]
    /\ t_pc' = [ t_pc EXCEPT ![t] = "recv" ]
    /\ UNCHANGED << flagVars, t_mqtt, t_event, h_stop, callVars, authVars, identVars, storeVars,
                    sideVars >>

\* --------------------------------------------------------- specifications
\* the state after __init__ (lines 72-102): no transaction, no callback, no event
\* thread; _login() has succeeded or failed
InitCommon ==
    /\ _requests = EmptyDict
    /\ c_pc = [ c \in Callers |-> "idle" ]
    /\ c_tid = [ c \in Callers |-> Absent ]
    /\ c_expired = [ c \in Callers |-> FALSE ]
    /\ c_notified = [ c \in Callers |-> FALSE ]
    /\ c_response = [ c \in Callers |-> NoneV ]
    /\ c_arrived = [ c \in Callers |-> FALSE ]
    /\ c_cleared = [ c \in Callers |-> FALSE ]
    /\ _stop_thread = FALSE
    /\ _event_client = NoClient
    /\ _event_connected = FALSE
    /\ _client_connected = "unset"
    /\ _use_mqtt = FALSE
    /\ t_pc = [ t \in Threads |-> "unstarted" ]
    /\ t_mqtt = [ t \in Threads |-> FALSE ]
    /\ t_event = [ t \in Threads |-> "nothing" ]
    /\ t_handled = [ t \in Threads |-> FALSE ]
    /\ h_stop = [ t \in Threads |-> FALSE ]
    /\ sm_pc = "idle"
    /\ sm_count = 0
    /\ sm_result = NoResult
    /\ starts = 0
    /\ reconnecting = FALSE
    /\ lo_pc = "idle"

\* the client program calls start_monitoring() once
Init ==
    /\ InitCommon
    /\ NoLoginCfg
    /\ _logged_in \in BOOLEAN
    /\ start_limit = 1

\* the steps of event thread t that do not wait for the transport
SupStep(t) ==
    \/ SupTop(t)
    \/ SupLoggedIn(t)
    \/ SupReloginWait(t)
    \/ \E success \in BOOLEAN : SupLogin(t, success)
    \/ \E opened \in BOOLEAN : SupTransport(t, opened)
    \/ SupUndecodable(t)
    \/ SupLogout(t)
    \/ SupConnected(t)
    \/ \E response \in StreamPayloads : SupPayload(t, response)
    \/ SupClosed(t)
    \/ SupCleanup(t)
    \/ SupReset(t)

Supervisor ==
    \/ \E t \in Threads : SupStep(t)
    \/ \E t \in Threads, kind \in EventKinds : SupReceive(t, kind)

\* start_monitoring(), and the reconnect daemon it schedules
Monitoring ==
    \/ \E backend \in Backends, topics \in 0 .. MaxTopics :
          StartMonitoring(backend, topics)
    \/ StartMonitoringWait
    \/ \E reconnect_every \in 0 .. 1 : StartMonitoringReturn(reconnect_every)
    \/ SseReconnect

\* logout()
Logout ==
    \/ LogoutStop
    \/ LogoutCheck
    \/ LogoutClose
    \/ LogoutPut

Next == Supervisor \/ Monitoring \/ Logout

Spec == Init /\ [][Next]_vars

\* the client program calls start_monitoring() up to MaxStarts times, and
\* does not call logout()
InitRestart ==
    /\ InitCommon
    /\ NoLoginCfg
    /\ _logged_in = TRUE
    /\ start_limit = MaxStarts

NextRestart == Supervisor \/ Monitoring

SpecRestart == InitRestart /\ [][NextRestart]_vars

\* monitoring is up over the stream transport (start_monitoring() has returned,
\* event thread 1 is in its receive loop) and the callers use notify()/post() in synchronous mode
InitCorr ==
    /\ _requests = EmptyDict
    /\ c_pc = [ c \in Callers |-> "idle" ]
    /\ c_tid = [ c \in Callers |-> Absent ]
    /\ c_expired = [ c \in Callers |-> FALSE ]
    /\ c_notified = [ c \in Callers |-> FALSE ]
    /\ c_response = [ c \in Callers |-> NoneV ]
    /\ c_arrived = [ c \in Callers |-> FALSE ]
    /\ c_cleared = [ c \in Callers |-> FALSE ]
    /\ _logged_in = TRUE
    /\ _stop_thread = FALSE
    /\ _event_client = 1
    /\ _event_connected = TRUE
    /\ _client_connected = "unset"
    /\ _use_mqtt = FALSE
    /\ t_pc = [ t \in Threads |-> IF t = 1 THEN "recv" ELSE "unstarted" ]
    /\ t_mqtt = [ t \in Threads |-> t = 1 /\ _use_mqtt ]
    /\ t_event = [ t \in Threads |-> "nothing" ]
    /\ t_handled = [ t \in Threads |-> FALSE ]
    /\ h_stop = [ t \in Threads |-> FALSE ]
    /\ sm_pc = "returned"
    /\ sm_count = 0
    /\ sm_result = [ value |-> TRUE, connected |-> TRUE ]
    /\ starts = 1
    /\ start_limit = 1
    /\ reconnecting = FALSE
    /\ lo_pc = "idle"
    /\ NoLoginCfg

\* notify(wait_for="event") and post(wait_for="resource"):
\* _start_transaction, the request, _wait_for_transaction
Caller(c) ==
    \/ \E tid \in CallerKeys : StartTransaction(c, tid)
    \/ \E expired \in BOOLEAN : WaitEnter(c, expired)
    \/ WaitWake(c)
    \/ WaitTimeout(c)

NextCorr ==
    \/ \E c \in Callers : Caller(c)
    \/ Supervisor

SpecCorr == InitCorr /\ [][NextCorr]_vars

\* the callers and the event thread, whose connection stays up and delivers
\* payloads only
NextWait ==
    \/ \E c \in Callers : Caller(c)
    \/ \E t \in Threads : SupReceive(t, "payload")
    \/ \E t \in Threads, response \in StreamPayloads : SupPayload(t, response)

SpecWait == InitCorr /\ [][NextWait]_vars

\* post(wait_for="resource"), lines 1274-1280, in program order:
\* tid = self._start_transaction(tid)
PostRegister(c, tid) ==
    /\ rq_pc[c] = "idle"
    /\ StartTransaction(c, tid)

\* self._request(path, "POST", ...) is called
PostRequest(c) ==
    /\ c_pc[c] = "started"
    /\ rq_pc[c] = "idle"
    /\ RequestCall(c, "POST")

\* self._wait_for_transaction(tid, timeout) is called when _request has returned
PostWait(c, expired) ==
    /\ rq_pc[c] = "returned"
    /\ WaitEnter(c, expired)

\* post returns what _wait_for_transaction returned
PostDone(c) ==
    /\ c_pc[c] = "done"
    /\ rq_pc[c] = "returned"
    /\ rq_pc' = [ rq_pc EXCEPT ![c] = "idle" ]
    /\ UNCHANGED << coreVars, authVars, identVars, storeVars, dispVars, selVars, rq_method,
                    rq_result, _req_lock >>

\* what the HTTP layer gives for the request of a post: an exception, or a
\* body with "success": true
PostResponses == { r \in HttpResponses : r.raised \/ r.ok }

\* list(params.keys())[0] of the posts: the callers post the same resource
PostKeys == { ResAB }

\* the payloads the transport delivers while the posts run: those of the
\* posted resource
PostPayloads == { p \in StreamPayloads : p.resource = ResAB /\ p.transId = Absent }

\* the steps of a caller of post
Post(c) ==
    \/ \E tid \in PostKeys : PostRegister(c, tid)
    \/ PostRequest(c)
    \/ RequestAcquire(c)
    \/ RequestSend(c)
    \/ \E r \in PostResponses : RequestResponse(c, r)
    \/ \E expired \in BOOLEAN : PostWait(c, expired)
    \/ WaitWake(c)
    \/ WaitTimeout(c)
    \/ PostDone(c)

\* callers of post, and the event thread, whose connection stays up and
\* delivers payloads only
NextPost ==
    \/ \E c \in Callers : Post(c)
    \/ \E t \in Threads : SupReceive(t, "payload")
    \/ \E t \in Threads, response \in PostPayloads : SupPayload(t, response)

SpecPost == InitCorr /\ [][NextPost]_vars

\* the event thread is scheduled fairly: a step of _event_main that does not
\* wait for the transport is eventually taken (self._lock.wait(5) is bounded)
FairSpec == Spec /\ \A t \in Threads : WF_vars(SupStep(t))

\* _event_handle_response as a function of the map and the payload: event
\* thread 1 holds a payload, and the map holds any registered keys, each
\* unresolved or resolved by an earlier payload
InitMatch ==
    /\ _requests \in UNION { [ ks -> {NoneV} \cup Payloads ] : ks \in SUBSET Keys }
    /\ c_pc = [ c \in Callers |-> "idle" ]
    /\ c_tid = [ c \in Callers |-> Absent ]
    /\ c_expired = [ c \in Callers |-> FALSE ]
    /\ c_notified = [ c \in Callers |-> FALSE ]
    /\ c_response = [ c \in Callers |-> NoneV ]
    /\ c_arrived = [ c \in Callers |-> FALSE ]
    /\ c_cleared = [ c \in Callers |-> FALSE ]
    /\ _logged_in = TRUE
    /\ _stop_thread = FALSE
    /\ _event_client = 1
    /\ _event_connected = TRUE
    /\ _client_connected = "unset"
    /\ _use_mqtt = FALSE
    /\ t_pc = [ t \in Threads |-> IF t = 1 THEN "got" ELSE "unstarted" ]
    /\ t_mqtt = [ t \in Threads |-> FALSE ]
    /\ t_event = [ t \in Threads |-> IF t = 1 THEN "payload" ELSE "nothing" ]
    /\ t_handled = [ t \in Threads |-> FALSE ]
    /\ h_stop = [ t \in Threads |-> FALSE ]
    /\ sm_pc = "returned"
    /\ sm_count = 0
    /\ sm_result = [ value |-> TRUE, connected |-> TRUE ]
    /\ starts = 1
    /\ start_limit = 1
    /\ reconnecting = FALSE
    /\ lo_pc = "idle"
    /\ NoLoginCfg

NextMatch ==
    \/ \E response \in Payloads : SupPayload(1, response)
    \/ SupReceive(1, "payload")

SpecMatch == InitMatch /\ [][NextMatch]_vars

\* __init__ of an ArloBackEnd: _load_session, the device id, _login; for every
\* configuration of the curves and of the second factor, with no session file
InitLogin ==
    /\ InitCommon
    /\ _logged_in = FALSE
    /\ start_limit = 1
    /\ NoLogin
    /\ NoDevices
    /\ curves \in 0 .. MaxCurves
    /\ tfa_source \in {"push", "provider"}
    /\ tfa_retries \in 1 .. MaxTfaRetries
    /\ save_session \in BOOLEAN
    /\ session_file = NoFile

\* _auth
Auth ==
    \/ \E r \in HttpResponses : AuthAttempt(r)
    \/ AuthSleep
    \/ \E b \in AuthBodies, authCompleted \in BOOLEAN : AuthCredResult(b, authCompleted)
    \/ \E ok \in BOOLEAN : AuthFactorId(ok)
    \/ \E factors \in {"None", "nomatch", "match"} : AuthFactors(factors)
    \/ \E ok \in BOOLEAN, b \in AuthBodies : AuthQuickStart(ok, b)
    \/ \E ok \in BOOLEAN : TfaStart(ok)
    \/ \E ok \in BOOLEAN : AuthStartPost(ok)
    \/ \E got \in BOOLEAN : TfaGet(got)
    \/ TfaStop
    \/ \E ok \in BOOLEAN, b \in AuthBodies : AuthFinish(ok, b)
    \/ \E ok \in BOOLEAN : AuthPushStart(ok)
    \/ \E ok \in BOOLEAN, b \in AuthBodies : AuthPushFinish(ok, b)

\* __init__ and _login
Login ==
    \/ LoadSession
    \/ NewDeviceId
    \/ LoginBegin
    \/ LoginFor
    \/ LoginAuthResult
    \/ \E validated \in BOOLEAN : LoginValidate(validated)
    \/ \E ok \in BOOLEAN : LoginPair(ok)
    \/ LoginAfter
    \/ \E writable \in BOOLEAN : LoginSave(writable)
    \/ \E ok \in BOOLEAN : LoginV2(ok)

NextLogin == Auth \/ Login

SpecLogin == InitLogin /\ [][NextLogin]_vars

\* the entry an earlier login of the account has stored
StoredEntry ==
    SessionEntry(UserU, WebId(UserU), SubId(WebId(UserU)), << "k1" >>, 1, BrowserCode, DeviceId)

\* dictionaries found in a session file: a complete entry, and the entry
\* lacking one key (an older release wrote no browser_auth_code or device_id)
StoredEntries == { StoredEntry } \cup { DictWithout(StoredEntry, k) : k \in DOMAIN StoredEntry }

\* the contents of cfg.session_file: none, unreadable, a version-1 dictionary,
\* a version "2" container with or without entries, a container of another
\* version
SessionFiles ==
    { NoFile, CorruptFile }
    \cup { PickleDump(entry) : entry \in StoredEntries }
    \cup { PickleDump(EmptyContainer) }
    \cup { PickleDump(EmptyContainer @@ (Username :> entry)) : entry \in StoredEntries }
    \cup { PickleDump(EmptyContainer @@ (OtherUser :> StoredEntry)) }
    \cup { PickleDump(EmptyContainer @@ (Username :> StoredEntry) @@ (OtherUser :> StoredEntry)) }
    \cup { PickleDump(("version" :> "3") @@ (Username :> StoredEntry)) }

\* __init__ of an ArloBackEnd for every content of the session file, with one
\* curve; a later ArloBackEnd loads what the earlier one saved
InitSession ==
    /\ InitCommon
    /\ _logged_in = FALSE
    /\ start_limit = 1
    /\ NoLogin
    /\ NoDevices
    /\ curves = 1
    /\ tfa_source \in {"push", "provider"}
    /\ tfa_retries = 1
    /\ save_session \in BOOLEAN
    /\ session_file \in SessionFiles

SpecSession == InitSession /\ [][NextLogin]_vars

\* the client program registers listeners, then injects one payload
InitDispatch ==
    /\ InitCommon
    /\ NoLoginCfg
    /\ _logged_in = TRUE
    /\ start_limit = 1

NextDispatch ==
    \/ \E device \in Devices, callback \in ListenerCallbacks : AddListener(device, callback)
    \/ \E callback \in ListenerCallbacks : AddAnyListener(callback)
    \/ \E response \in DispatchPayloads : EvInject(response)

SpecDispatch == InitDispatch /\ [][NextDispatch]_vars

\* the client program registers and removes listeners while the event thread
\* runs, loses its connection, cleans up and connects again
InitCallbacks ==
    /\ InitCommon
    /\ NoLoginCfg
    /\ _logged_in = TRUE
    /\ start_limit = 1

NextCallbacks ==
    \/ Supervisor
    \/ Monitoring
    \/ \E device \in Devices, callback \in ListenerCallbacks : AddListener(device, callback)
    \/ \E callback \in ListenerCallbacks : AddAnyListener(callback)
    \/ \E device \in Devices, callback \in ListenerCallbacks : DelListener(device, callback)

SpecCallbacks == InitCallbacks /\ [][NextCallbacks]_vars

\* event thread 1 holds a payload, and the map holds any of the keys, unresolved
InitHandle ==
    /\ _requests \in UNION { [ ks -> {NoneV} ] : ks \in SUBSET HandleKeys }
    /\ c_pc = [ c \in Callers |-> "idle" ]
    /\ c_tid = [ c \in Callers |-> Absent ]
    /\ c_expired = [ c \in Callers |-> FALSE ]
    /\ c_notified = [ c \in Callers |-> FALSE ]
    /\ c_response = [ c \in Callers |-> NoneV ]
    /\ c_arrived = [ c \in Callers |-> FALSE ]
    /\ c_cleared = [ c \in Callers |-> FALSE ]
    /\ _logged_in = TRUE
    /\ _stop_thread = FALSE
    /\ _event_client = 1
    /\ _event_connected = TRUE
    /\ _client_connected = "unset"
    /\ _use_mqtt = FALSE
    /\ t_pc = [ t \in Threads |-> IF t = 1 THEN "got" ELSE "unstarted" ]
    /\ t_mqtt = [ t \in Threads |-> FALSE ]
    /\ t_event = [ t \in Threads |-> IF t = 1 THEN "payload" ELSE "nothing" ]
    /\ t_handled = [ t \in Threads |-> FALSE ]
    /\ h_stop = [ t \in Threads |-> FALSE ]
    /\ sm_pc = "returned"
    /\ sm_count = 0
    /\ sm_result = [ value |-> TRUE, connected |-> TRUE ]
    /\ starts = 1
    /\ start_limit = 1
    /\ reconnecting = FALSE
    /\ lo_pc = "idle"
    /\ NoLoginCfg

NextHandle == \E response \in HandlePayloads : SupHandle(1, response)

SpecHandle == InitHandle /\ [][NextHandle]_vars

\* start_monitoring() of a client with any configured transport and any
\* device list
InitSelect ==
    /\ InitCommon
    /\ NoLogin
    /\ curves = 1
    /\ tfa_source = "provider"
    /\ tfa_retries = 1
    /\ save_session = FALSE
    /\ session_file = NoFile
    /\ _logged_in = TRUE
    /\ start_limit = 1
    /\ event_backend \in Backends
    /\ devices \in DeviceLists

NextSelect == StartMonitoring(event_backend, Len(MqttTopics(devices)))

SpecSelect == InitSelect /\ [][NextSelect]_vars

\* the callers' threads call _request_tuple
InitRequest ==
    /\ InitCommon
    /\ NoLoginCfg
    /\ _logged_in = TRUE
    /\ start_limit = 1

NextRequest ==
    \E c \in Callers :
        \/ \E method \in Methods : RequestCall(c, method)
        \/ RequestAcquire(c)
        \/ RequestSend(c)
        \/ \E r \in HttpResponses : RequestResponse(c, r)

SpecRequest == InitRequest /\ [][NextRequest]_vars

\* ------------------------------------------------------------------ claims
\* C1 (as claimed): one payload handed to _event_handle_response changes at
\* most one registered key from unresolved to resolved.
C1_AtMostOneKeyResolved ==
    [][ \A k1, k2 \in (DOMAIN _requests) \cap (DOMAIN _requests') :
          ( (_requests[k1] = NoneV) /\ (_requests'[k1] # NoneV) /\
            (_requests[k2] = NoneV) /\ (_requests'[k2] # NoneV) ) => (k1 = k2) ]_vars

\* C2 (as claimed): once the transaction-id key holds a captured response, a
\* later payload with the same identifier does not replace it.
C2_FirstResponseKept ==
    [][ ( (TidT \in DOMAIN _requests) /\ (TidT \in DOMAIN _requests') /\
          (_requests[TidT] # NoneV) /\ (_requests'[TidT] # NoneV) )
        => (_requests'[TidT] = _requests[TidT]) ]_vars

\* C3: when _wait_for_transaction returns, its key is not in the pending map,
\* and it returns None unless a payload resolved the key after the caller had
\* registered it.
C3_WaitReturn ==
    [][ \A c \in Callers :
          (c_pc[c] \in {"started", "waiting"} /\ c_pc'[c] = "done")
          => ( (c_tid[c] \notin DOMAIN _requests') /\
               (~c_arrived[c] => c_response'[c] = NoneV) ) ]_vars

\* C3 witness: a caller whose budget elapsed with no matching payload has
\* returned None.
C3_Witness ==
    \E c \in Callers :
        c_pc[c] = "done" /\ c_expired[c] /\ ~c_arrived[c] /\ c_response[c] = NoneV

\* C4 (as claimed): a caller that was blocked in _wait_for_transaction when the
\* event thread cleared the map returns None as soon as it wakes.
C4_ClearedWaiterReturnsNone ==
    [][ \A c \in Callers :
          (c_pc[c] = "waiting" /\ c_cleared[c] /\ c_notified[c] /\ ~c_notified'[c])
          => (c_pc'[c] = "done" /\ c_response'[c] = NoneV) ]_vars

\* C5 (as claimed): start_monitoring returns whether the connected flag was set
\* when its bounded wait ended.
C5_ResultIsConnected ==
    sm_pc = "returned" => sm_result.value = sm_result.connected

\* C6 (as claimed): once logout() has set the stop flag and passed its closing
\* of the transport handle, no event thread starts a login or a transport.
C6_NothingStartsAfterLogout ==
    [][ (lo_pc \in {"put", "done"}) =>
          \A t \in Threads :
             ( ~(t_pc[t] = "relogin" /\ t_pc'[t] = "login") /\
               ~(t_pc[t] = "transport" /\ t_pc'[t] \in {"recv", "exited"}) ) ]_vars

\* C7: with the event thread scheduled fairly, an exit of the receive loop
\* leads to a login attempt unless stop is requested; a thread in the re-login
\* loop that is not logged in attempts a login again; and a thread that is
\* logged in runs the transport's receive loop.
C7_SelfHealing ==
    \A t \in Threads :
        /\ (t_pc[t] = "exited" /\ ~_stop_thread) ~> (t_pc[t] = "login" \/ _stop_thread)
        /\ (t_pc[t] = "relogin" /\ ~_logged_in) ~> (t_pc[t] = "login")
        /\ (t_pc[t] = "relogin" /\ _logged_in) ~> (t_pc[t] \in {"recv", "exited"})

\* C7 witness: a receive loop runs after an earlier one has exited and been
\* cleaned up, with no stop requested.
C7_Witness ==
    \E t \in Threads : t_pc[t] = "recv" /\ _client_connected = "False" /\ ~_stop_thread

C9_LogoutPayload ==
    \A t \in Threads :
        (t_event[t] = "logout" /\ t_pc[t] \in {"recv", "exited"})
        => (~t_handled[t] /\ (t_pc[t] = "recv" <=> t_mqtt[t]))

\* C9 witness: the push transport's loop goes on after a logout payload.
C9_Witness ==
    \E t \in Threads : t_event[t] = "logout" /\ t_pc[t] = "recv" /\ t_mqtt[t]

\* C9 (as claimed): on either transport a logout payload ends the receive loop
\* and is not handed to _event_handle_response.
C9_AsClaimed ==
    \A t \in Threads :
        (t_event[t] = "logout" /\ t_pc[t] \in {"recv", "exited"})
        => (~t_handled[t] /\ t_pc[t] = "exited")

\* C10 (as claimed): at most one event thread runs _event_main and at most one
\* transport handle is in a receive loop.
C10_SingleSupervisor ==
    /\ Cardinality({ t \in Threads : t_pc[t] \notin {"unstarted", "dead"} }) <= 1
    /\ Cardinality({ t \in Threads : t_pc[t] \in {"recv", "got"} }) <= 1

\* C11 (as claimed): one pass of _auth posts the credentials at most 3 times,
\* stops at the first 200 or 401, waits at most 2 times, and after two other
\* answers and a 200 the credential step has succeeded at attempt 3.
C11_CredentialRetryBound ==
    /\ Len(codes) <= LoginAttempts
    /\ \A i \in 1 .. Len(codes) - 1 : codes[i] \notin {200, 401}
    /\ sleeps <= 2
    /\ (Len(codes) = 3 /\ codes[3] = 200 /\ l_pc = "cred_done") => (code = 200 /\ body = "data")

\* C12 (as claimed): after a 401 answer to the first credential request,
\* nothing is retried, _auth returns FAILED and _login returns False without
\* trying another curve.
C12_UnauthorizedIsFatal ==
    (Len(codes) >= 1 /\ codes[1] = 401 /\ l_pc # "cred_done")
    => /\ Len(codes) = 1
       /\ l_pc \in {"auth_ret", "idle"}
       /\ l_pc = "auth_ret" => l_success = "FAILED"
       /\ l_pc = "idle" => l_result = "False"

\* C13 (as claimed): a curve is tried only after every earlier curve's attempt
\* ended Retryable; after a Fatal result of _auth the login has returned False;
\* a login that returned with no successful attempt returned False.
C13_NextCurveOnlyAfterRetryable ==
    /\ l_pc = "cred" => \A i \in 1 .. Len(outcomes) : outcomes[i] = "CAN_RETRY"
    /\ (\E i \in 1 .. Len(outcomes) : outcomes[i] = "FAILED")
          => (l_pc = "idle" /\ l_result = "False")
    /\ (l_pc = "idle" /\ l_result # "none" /\ \A i \in 1 .. Len(outcomes) : outcomes[i] # "SUCCESS")
          => l_result = "False"

\* C14 (as claimed): after a failure of _validate no further curve is tried,
\* and the login does not return True.
C14_ValidationFailureIsFatal ==
    (\E i \in 1 .. Len(outcomes) : outcomes[i] = "validate")
    => (l_pc \in {"for", "after", "idle"} /\ curve = Len(outcomes) /\ l_result # "True")

\* C15 (amended): in the code-based path a failure of tfa.start() and a non-ok
\* answer to the finish request end _auth with FAILED; a non-ok answer to the
\* start request and a missing one-time code end it with CAN_RETRY.
C15_CodePathOutcomes ==
    [][ /\ (l_pc = "tfa_start" /\ l_pc' = "auth_ret") => l_success' = "FAILED"
        /\ (l_pc = "finish" /\ code' # 200) => (l_pc' = "auth_ret" /\ l_success' = "FAILED")
        /\ (l_pc = "start_post" /\ code' # 200) => (l_pc' = "auth_ret" /\ l_success' = "CAN_RETRY")
        /\ (l_pc = "tfa_get" /\ code' = NoOtp) => (l_pc' = "auth_ret" /\ l_success' = "CAN_RETRY")
      ]_vars

\* C15 witness: _auth has returned CAN_RETRY because tfa.get() gave no code.
C15_Witness ==
    l_pc = "auth_ret" /\ tfa = "started" /\ code = NoOtp /\ l_success = "CAN_RETRY"

\* C15 (as claimed): a provider start failure, a missing code and a non-ok
\* finish answer are FAILED; a non-ok answer to the start request is CAN_RETRY.
C15_AsClaimed ==
    [][ /\ (l_pc = "tfa_start" /\ l_pc' = "auth_ret") => l_success' = "FAILED"
        /\ (l_pc = "finish" /\ code' # 200) => (l_pc' = "auth_ret" /\ l_success' = "FAILED")
        /\ (l_pc = "start_post" /\ code' # 200) => (l_pc' = "auth_ret" /\ l_success' = "CAN_RETRY")
        /\ (l_pc = "tfa_get" /\ code' = NoOtp) => (l_pc' = "auth_ret" /\ l_success' = "FAILED")
      ]_vars

\* the attempt of some curve passed _auth, _validate and _pair_auth_code
LoopSucceeded == \E i \in 1 .. Len(outcomes) : outcomes[i] = "SUCCESS"

\* C16 (amended): a run of _login that fails at the credentials, the second
\* factor, the validation or the pairing has not executed _save_session; a run
\* that passes them executes it exactly once, before the session-bootstrap
\* call, whether that call then succeeds or not; a run that returns True has
\* executed it exactly once.
C16_SaveOncePassedPairing ==
    /\ saves = (IF LoopSucceeded /\ l_pc \in {"v2", "idle"} THEN 1 ELSE 0)
    /\ l_result = "True" => saves = 1

\* C16 witness: a login has returned True and the store has been written.
C16_Witness ==
    l_pc = "idle" /\ l_result = "True" /\ saves = 1 /\ s_last = "saved"

\* C16 (as claimed): a run of _login that returned False has not executed
\* _save_session, and a run that returned True has executed it exactly once.
C16_AsClaimed ==
    /\ (l_pc = "idle" /\ l_result = "False") => saves = 0
    /\ l_result = "True" => saves = 1

\* _load_session has returned and nothing else has run since
JustLoaded == s_last = "loaded" /\ l_pc = "idle" /\ l_result = "none"

\* C17 (as claimed): after _load_session the user id, web id, subscription id
\* and token are all set or all absent, and the entry _save_session has written
\* has all of them set.
C17_IdentityAllOrNone ==
    /\ JustLoaded =>
          \/ (_user_id # Absent /\ _web_id # Absent /\ _sub_id # Absent /\ _token # Absent)
          \/ (_user_id = Absent /\ _web_id = Absent /\ _sub_id = Absent /\ _token = Absent)
    /\ s_last = "saved" =>
          \A k \in {"user_id", "web_id", "sub_id", "token"} :
              session_file.data[Username][k] # Absent

\* C18: a _load_session that follows a _save_session of the same account
\* leaves the user id, web id, subscription id, token, expiry, browser
\* pairing code and device id that were saved.
C18_SaveLoadRoundTrip ==
    [][ (s_last = "saved" /\ s_last' = "loaded")
        => ( (_user_id' = _user_id) /\ (_web_id' = _web_id) /\ (_sub_id' = _sub_id) /\
             (_token' = _token) /\ (_expires_in' = _expires_in) /\
             (_browser_auth_code' = _browser_auth_code) /\
             (_user_device_id' = _user_device_id) ) ]_vars

\* C18 witness: a load has restored a token that only a login of this model
\* can have saved.
C18_Witness == JustLoaded /\ _token = << "k2" >> /\ _user_device_id = DeviceId

\* the session file holds a version-1 dictionary with the keys that
\* _load_session reads
Version1File ==
    /\ "data" \in DOMAIN session_file
    /\ "version" \notin DOMAIN session_file.data
    /\ \A i \in 1 .. Len(MandatoryKeys) : MandatoryKeys[i] \in DOMAIN session_file.data

\* C19: after a version-1 file is loaded, ArloBackEnd._session_info is a
\* version "2" container whose only entry, under cfg.username, is the version-1
\* dictionary, and the loaded fields are the version-1 values.
C19_Version1Migrated ==
    (JustLoaded /\ save_session /\ Version1File)
    => /\ DOMAIN _session_info = {"version", Username}
       /\ _session_info["version"] = "2"
       /\ _session_info[Username] = session_file.data
       /\ _user_id = session_file.data["user_id"]
       /\ _web_id = session_file.data["web_id"]
       /\ _sub_id = session_file.data["sub_id"]
       /\ _token = session_file.data["token"]
       /\ _expires_in = session_file.data["expires_in"]
       /\ "browser_auth_code" \in DOMAIN session_file.data
             => _browser_auth_code = session_file.data["browser_auth_code"]
       /\ "device_id" \in DOMAIN session_file.data
             => _user_device_id = session_file.data["device_id"]

\* C19 witness: a version-1 file written before device ids were stored has
\* been loaded.
C19_Witness ==
    /\ JustLoaded /\ save_session /\ Version1File
    /\ "device_id" \notin DOMAIN session_file.data
    /\ _token = << "k1" >>

\* the dispatcher has classified the injected payload by its fourth case: the
\* resource is "<type>/..." with a known type, and the keep-alive, mode
\* response and "states" cases did not match
ClassifiedByPath ==
    /\ d_pc = "dispatched"
    /\ \E x \in ResourceTypes : StartsWith(d_response.resource, x \o <<"/">>)
    /\ ~ StartsWith(d_response.resource, <<"subscriptions", "/">>)
    /\ d_response.resource # <<"activeAutomations">>
    /\ d_response.states = NoneV

\* C20: a payload classified by the fourth case gives exactly one triple, whose
\* device id is the segment of the resource that follows "<type>/", whose
\* resource is the payload's and whose sub-payload is the whole payload.
C20_PathCaseOneTriple ==
    ClassifiedByPath
    => /\ Len(responses) = 1
       /\ \E x \in ResourceTypes :
             StartsWith(d_response.resource, x \o <<"/">> \o responses[1][1])
             /\ \A i \in 1 .. Len(responses[1][1]) : responses[1][1][i] # "/"
             /\ ( Len(d_response.resource) = Len(x) + 1 + Len(responses[1][1])
                  \/ d_response.resource[Len(x) + 2 + Len(responses[1][1])] = "/" )
       /\ responses[1][2] = d_response.resource
       /\ responses[1][3] = d_response

\* C20 witness: "cameras/d" with other ids in the payload has been dispatched
\* to the listeners of d.
C20_Witness ==
    /\ ClassifiedByPath
    /\ d_response.resource = <<"cameras", "/", "d">>
    /\ d_response.from # Absent
    /\ d_response.deviceId # Absent
    /\ responses[1][1] = DevD
    /\ Len(scheduled) >= 1

\* C21: whatever triples the dispatcher made of a payload, also none, the
\* payload resolves the registered keys that match it: the key equal to its
\* transaction id, the key equal to its resource, and without such a key the
\* patterns that match its resource (with ":" and its originating id).
C21_CheckedWhateverRouting ==
    (d_pc = "dispatched")
    => LET tid == d_response.transId
           resource == d_response.resource
           target == IF d_response.from # Absent
                     THEN resource \o <<":">> \o d_response.from ELSE resource
       IN  /\ tid \in DOMAIN _requests => _requests[tid] = d_response
           /\ resource \in DOMAIN _requests => _requests[resource] = d_response
           /\ (resource # Absent /\ resource \notin DOMAIN _requests)
                 => \A k \in DOMAIN _requests : ReMatch(k, target) => _requests[k] = d_response

\* C21 witness: a keep-alive payload and an unroutable payload gave no triple
\* and resolved a registered key.
C21_Witness ==
    /\ d_pc = "dispatched"
    /\ Len(responses) = 0
    /\ \/ /\ d_response.resource = <<"subscriptions", "/", "s">>
          /\ <<"subscriptions", "/", "s">> \in DOMAIN _requests
          /\ _requests[<<"subscriptions", "/", "s">>] = d_response
       \/ /\ d_response.resource = ResAB
          /\ ResAB \in DOMAIN _requests
          /\ _requests[ResAB] = d_response

\* the subscribers registered under a key of the registry, as a list
RegisteredUnder(key) == IF key \in DOMAIN _callbacks THEN _callbacks[key] ELSE << >>

\* the number of calls scheduled for the j-th triple, and for those before it
CallsFor(j) == Len(RegisteredUnder(responses[j][1])) + Len(RegisteredUnder(<<"all">>))

RECURSIVE CallsBefore(_)
CallsBefore(j) == IF j <= 1 THEN 0 ELSE CallsBefore(j - 1) + CallsFor(j - 1)

\* C22: the calls scheduled for a payload are, triple by triple, one call per
\* registration under the triple's device id and one per registration under
\* "all", each with the triple's resource and sub-payload, and no other call:
\* every subscriber called is registered under the device id of a triple or
\* under "all".
C22_DeliveredToDeviceAndAll ==
    (d_pc = "dispatched")
    => /\ Len(scheduled) = CallsBefore(Len(responses) + 1)
       /\ \A j \in 1 .. Len(responses) :
             LET registered == RegisteredUnder(responses[j][1]) \o RegisteredUnder(<<"all">>)
             IN  \A n \in 1 .. CallsFor(j) :
                    /\ scheduled[CallsBefore(j) + n][1] = registered[n]
                    /\ scheduled[CallsBefore(j) + n][2] = responses[j][2]
                    /\ scheduled[CallsBefore(j) + n][3] = responses[j][3]
       /\ \A i \in 1 .. Len(scheduled) :
             \E key \in { responses[j][1] : j \in 1 .. Len(responses) } \cup { <<"all">> } :
                \E n \in 1 .. Len(RegisteredUnder(key)) : RegisteredUnder(key)[n] = scheduled[i][1]

\* C22 witness: a triple for device d was delivered to the subscriber of d and
\* to the subscriber of "all".
C22_Witness ==
    /\ d_pc = "dispatched"
    /\ Len(responses) = 1
    /\ responses[1][1] = DevD
    /\ RegisteredUnder(DevD) = << "cb1", "cb1" >>
    /\ RegisteredUnder(<<"all">>) = << "cb2" >>
    /\ Len(scheduled) = 3

\* C23: when start_monitoring has selected the transport, with "auto" it is the
\* push transport exactly if a device of the list holds a topic, with "mqtt"
\* the push transport and with "sse" the stream transport, whatever the devices.
C23_BackendSelection ==
    (sm_pc = "waiting")
    => /\ (event_backend = "auto")
             => (_use_mqtt <=> \E i \in 1 .. Len(devices) :
                                   devices[i] # NoneV /\ Len(devices[i].list) > 0)
       /\ (event_backend = "mqtt") => _use_mqtt
       /\ (event_backend = "sse") => ~_use_mqtt

\* C23 witness: "auto" chose the push transport for a list whose first device
\* has no topics and whose second has one.
C23_Witness ==
    /\ sm_pc = "waiting"
    /\ event_backend = "auto"
    /\ devices = << [list |-> << >>], [list |-> << "t1" >>] >>
    /\ _use_mqtt

\* C24 (as claimed): a caller of _request_tuple whose request is sent and
\* waits for its response does not hold the request lock, so that another
\* caller's request can be built and sent meanwhile.
C24_LockOnlyWhileBuilding ==
    \A c \in Callers : rq_pc[c] = "sent" => _req_lock # c

\* post(wait_for="resource") returns: _wait_for_transaction of caller c ends
PostReturns(c) ==
    c_pc[c] \in {"started", "waiting"} /\ c_pc'[c] = "done"

\* C25 (as claimed): a post that waits for a resource returns the payload that
\* resolved its key if one arrived, and otherwise returns None only when its
\* timeout has passed.
C25_PostWaitsForResource ==
    [][ \A c \in Callers :
          PostReturns(c) =>
            IF c_arrived[c]
            THEN c_response'[c] # NoneV
            ELSE c_response'[c] = NoneV /\ c_expired'[c] ]_vars

\* C26: the callback registry only grows: no step removes a key of _callbacks
\* or a callback of a list (del_listener changes nothing), and no step of the
\* event thread, its cleanup and its reconnect included, changes the lists.
C26_RegistryOnlyGrows ==
    [][ /\ \A key \in DOMAIN _callbacks :
              /\ key \in DOMAIN _callbacks'
              /\ Len(_callbacks[key]) <= Len(_callbacks'[key])
              /\ SubSeq(_callbacks'[key], 1, Len(_callbacks[key])) = _callbacks[key]
        /\ t_pc' # t_pc => _callbacks' = _callbacks
      ]_vars

\* two listeners are registered, and the event thread is in its receive loop
\* again after a cleanup
C26_Witness ==
    /\ listeners = MaxListeners
    /\ DevD \in DOMAIN _callbacks
    /\ <<"all">> \in DOMAIN _callbacks
    /\ _client_connected = "False"
    /\ \E t \in Threads : t_pc[t] = "recv"

C28_DisconnectedAfterLoopExit ==
    \A t \in Threads : t_pc[t] = "cleaned" => ~_event_connected

\* C29 (as claimed): a payload that has a resource and no "from" resolves a
\* registered key only when the key equals its transaction id or its resource;
\* the pattern matching is kept for payloads that have both.
C29_PatternsNeedFrom ==
    [][ \A key \in DOMAIN _requests \cap DOMAIN _requests' :
          ( /\ _requests'[key] # _requests[key]
            /\ _requests'[key] # NoneV
            /\ _requests'[key].resource # Absent
            /\ _requests'[key].from = Absent ) =>
              key \in { _requests'[key].transId, _requests'[key].resource } ]_vars

\* C30 (as claimed): a payload with "states" and no "from" is classified by
\* the first later case it matches: with a resource "<type>/<id>" of a known
\* type the dispatcher makes one triple, keyed by <id>.
C30_StatesWithoutFromFallsThrough ==
    ( /\ d_pc = "dispatched"
      /\ d_response.states # NoneV
      /\ d_response.from = Absent
      /\ ~ StartsWith(d_response.resource, <<"subscriptions", "/">>)
      /\ \E x \in ResourceTypes : StartsWith(d_response.resource, x \o <<"/">>) )
    => /\ Len(responses) = 1
       /\ responses[1][1] = PathDeviceId(d_response.resource)
       /\ responses[1][2] = d_response.resource

\* event thread t enters the receive loop of a transport it has opened
EntersReceiveLoop(t) ==
    t_pc[t] = "transport" /\ t_pc'[t] = "recv"

\* event thread t ends one pass of _event_main after its transport has run
EndsPass(t) ==
    t_pc[t] = "cleaned" /\ t_pc'[t] = "top"

\* a run of _login in event thread t returns True
LoginSucceeds(t) ==
    t_pc[t] = "login" /\ t_pc'[t] = "relogin" /\ _logged_in'

\* C31 (as claimed): an event thread enters a receive loop only while authenticated; when
\* a run of the transport has ended the login is dropped, and only a
\* successful run of _login restores it, so that the next receive loop runs
\* after a new login.
C31_ReloginBetweenLoops ==
    [][ /\ \A t \in Threads : EntersReceiveLoop(t) => _logged_in
        /\ \A t \in Threads : EndsPass(t) => ~_logged_in'
        /\ (~_logged_in /\ _logged_in') => \E t \in Threads : LoginSucceeds(t) ]_vars

\* C32 (as claimed): the key is registered before the request is sent, so a
\* payload that resolves the key after the registration, also before the
\* caller starts to wait, is what the call returns, as long as no exit of a
\* receive loop has cleared the map.
C32_EarlyPayloadReturned ==
    [][ \A c \in Callers :
          (PostReturns(c) /\ c_arrived[c] /\ _client_connected = "unset")
              => c_response'[c] # NoneV ]_vars

\* caller o registers a key: _start_transaction
Registers(o) ==
    c_pc[o] \in {"idle", "done"} /\ c_pc'[o] = "started"

\* C33 (as claimed): when two callers have registered the same key and a
\* payload has resolved it for both, each of them that returns before its
\* timeout returns a payload; and a registration leaves alone a response that
\* is captured for a caller still to collect it.
C33_SharedKeyBothServed ==
    [][ /\ \A c \in Callers : \A o \in Callers \ {c} :
              ( /\ PostReturns(c)
                /\ c_arrived[c] /\ c_arrived[o]
                /\ ~c_expired'[c]
                /\ _client_connected = "unset" )
                  => c_response'[c] # NoneV
        /\ \A o \in Callers : \A c \in Callers \ {o} :
              ( /\ Registers(o)
                /\ c_pc[c] \in {"started", "waiting"}
                /\ c_tid[c] \in DOMAIN _requests
                /\ _requests[c_tid[c]] # NoneV )
                  => _requests'[c_tid[c]] = _requests[c_tid[c]] ]_vars

\* C34 (as claimed): after a single add_listener call (and no other
\* registration) the dispatcher schedules the callback at most once for each
\* triple it makes of a payload.
C34_OnceForEachTriple ==
    ( /\ d_pc = "dispatched"
      /\ listeners = 1
      /\ <<"all">> \notin DOMAIN _callbacks )
    => Len(scheduled) <= Len(responses)

\* C35 (as claimed): when _auth returns in a run in which tfa.start() has
\* succeeded, tfa.stop() has been called, whatever the exit path.
C35_ProviderStopped ==
    [][ (l_pc # "auth_ret" /\ l_pc' = "auth_ret") => tfa' # "started" ]_vars

\* caller c is blocked at "with self._req_lock:" (207)
WantsReqLock(c) == rq_pc[c] = "acquire"

\* caller c is about to take self._lock: it enters the block of
\* _wait_for_transaction (1144), or its wait() returns and takes the lock again
WantsLock(c) ==
    \/ c_pc[c] = "started" /\ rq_pc[c] = "returned"
    \/ c_pc[c] = "waiting" /\ (c_notified[c] \/ c_expired[c])

====
